---- MODULE Spec2Model ----
(***************************************************************************)
(* Model of docx.parts.document.DocumentPart: the lazy related-part        *)
(* accessors and the macro-stripping save() of a WordprocessingML package. *)
(*                                                                         *)
(* A part is a record [pn, oid]: its partname and the identity of the      *)
(* Python object.  A relationship is a record [rId, reltype, target,       *)
(* is_external]; rId n stands for the string "rId<n>".  The relationships  *)
(* of one source are a sequence in dict insertion order.                   *)
(***************************************************************************)
EXTENDS Naturals, Sequences, FiniteSets, TLC

VARIABLES
    content_type,     \* DocumentPart._content_type
    rels,             \* source -> sequence of relationships (package.rels, part.rels)
    markup,           \* DocumentPart._element: elements carrying an r:id, in document order
    related_parts,    \* DocumentPart.related_parts: the set of [rId, target] of the rId -> part mapping
    library,          \* which behaviour the library code outside this file has, fixed for a run
    numbering_cache,  \* value cached by @lazyproperty numbering_part, NoPart when not yet computed
    next_oid,         \* identity given to the next part object constructed
    saving,           \* the save() in progress when its steps are taken one at a time
    calls,            \* number of operations performed so far
    pre,              \* package state at the start of the last operation
    op                \* the last operation: its arguments and what it returned

vars == <<content_type, rels, markup, related_parts, library, numbering_cache, next_oid, saving,
          calls, pre, op>>

-----------------------------------------------------------------------------
(* Bounds of the model *)

MaxRels == 2        \* relationships of a loaded package besides the officeDocument one
MaxElems == 1       \* r:id-carrying elements in the loaded document markup
MaxCalls == 2       \* operations performed in one run
MaxStem == 2        \* characters of a destination path before its ending

-----------------------------------------------------------------------------
(* Content types, relationship types, partnames *)

CT_WML_DOCUMENT_MACRO_ENABLED_MAIN == "application/vnd.ms-word.document.macroEnabled.main+xml"
CT_WML_DOCUMENT_MAIN == "application/vnd.openxmlformats-officedocument.wordprocessingml.document.main+xml"

\* macro_reltypes with the header relationship type listed by mistake
macro_reltypes_with_header ==
    { "http://schemas.microsoft.com/office/2006/relationships/vbaProject",
      "http://schemas.microsoft.com/office/2006/relationships/wordVbaData",
      "http://schemas.openxmlformats.org/officeDocument/2006/relationships/control",
      "http://schemas.openxmlformats.org/officeDocument/2006/relationships/header" }

macro_reltypes ==
    { "http://schemas.microsoft.com/office/2006/relationships/vbaProject",
      "http://schemas.microsoft.com/office/2006/relationships/wordVbaData",
      "http://schemas.openxmlformats.org/officeDocument/2006/relationships/control" }

vba_content_types ==
    { "application/vnd.ms-word.vbaProject",
      "application/vnd.ms-word.vbaData+xml",
      "application/vnd.ms-office.activeX",
      "application/vnd.ms-office.activeX+xml" }

vba_partname_patterns == { "/word/vbaProject.bin", "/word/vbaData.xml" }

RT_OFFICE_DOCUMENT == "http://schemas.openxmlformats.org/officeDocument/2006/relationships/officeDocument"
RT_IMAGE == "http://schemas.openxmlformats.org/officeDocument/2006/relationships/image"
RT_HEADER == "http://schemas.openxmlformats.org/officeDocument/2006/relationships/header"
RT_CORE_PROPERTIES == "http://schemas.openxmlformats.org/package/2006/relationships/metadata/core-properties"
RT_FOOTER == "http://schemas.openxmlformats.org/officeDocument/2006/relationships/footer"
RT_NUMBERING == "http://schemas.openxmlformats.org/officeDocument/2006/relationships/numbering"
RT_SETTINGS == "http://schemas.openxmlformats.org/officeDocument/2006/relationships/settings"
RT_STYLES == "http://schemas.openxmlformats.org/officeDocument/2006/relationships/styles"
RT_COMMENTS == "http://schemas.openxmlformats.org/officeDocument/2006/relationships/comments"

-----------------------------------------------------------------------------
(* Parts *)

PKG == [pn |-> "/", oid |-> 0]                        \* the package, source of the root relationships
DOC == [pn |-> "/word/document.xml", oid |-> 1]       \* self, the document part
NoPart == [pn |-> "", oid |-> 0]                      \* no part object (None)
EXT == [pn |-> "http://example.com/target", oid |-> 0] \* target_ref of an external relationship

\* the parts a loaded package may hold besides the document part, with
\* their content types
LoadedTable ==
    { [part |-> [pn |-> "/word/vbaProject.bin", oid |-> 2], ct |-> "application/vnd.ms-word.vbaProject"],
      [part |-> [pn |-> "/word/vbaData.xml", oid |-> 3], ct |-> "application/vnd.ms-word.vbaData+xml"],
      [part |-> [pn |-> "/word/vbaData.xml", oid |-> 4], ct |-> "application/xml"],
      [part |-> [pn |-> "/word/activeX/activeX1.bin", oid |-> 5], ct |-> "application/vnd.ms-office.activeX"],
      [part |-> [pn |-> "/word/activeX/activeX1.xml", oid |-> 6], ct |-> "application/vnd.ms-office.activeX+xml"],
      [part |-> [pn |-> "/word/header1.xml", oid |-> 7],
       ct |-> "application/vnd.openxmlformats-officedocument.wordprocessingml.header+xml"],
      [part |-> [pn |-> "/word/settings.xml", oid |-> 8],
       ct |-> "application/vnd.openxmlformats-officedocument.wordprocessingml.settings+xml"],
      [part |-> [pn |-> "/word/numbering.xml", oid |-> 9],
       ct |-> "application/vnd.openxmlformats-officedocument.wordprocessingml.numbering+xml"],
      [part |-> [pn |-> "/word/styles.xml", oid |-> 10],
       ct |-> "application/vnd.openxmlformats-officedocument.wordprocessingml.styles+xml"],
      [part |-> [pn |-> "/word/comments.xml", oid |-> 11],
       ct |-> "application/vnd.openxmlformats-officedocument.wordprocessingml.comments+xml"] }

LoadedParts == { e.part : e \in LoadedTable }

FirstNewOid == Cardinality(LoadedParts) + 2

\* part.content_type
part_content_type(ct, p) ==
    IF p = DOC THEN ct
    ELSE IF p \in LoadedParts THEN (CHOOSE e \in LoadedTable : e.part = p).ct
    ELSE "application/xml"

-----------------------------------------------------------------------------
(* Sequences *)

Range(s) == { s[i] : i \in 1..Len(s) }

RECURSIVE Filter(_, _, _)
\* the elements of s, in order, that are not in the set drop
Filter(s, drop, i) ==
    IF i > Len(s) THEN <<>>
    ELSE IF s[i] \in drop THEN Filter(s, drop, i + 1)
    ELSE <<s[i]>> \o Filter(s, drop, i + 1)

rels_of(R, src) == IF src \in DOMAIN R THEN R[src] ELSE <<>>

-----------------------------------------------------------------------------
(* OpcPackage.iter_parts / OpcPackage.parts: the parts reachable from the  *)
(* package through non-external relationships, in depth-first order        *)

RECURSIVE walk_parts(_, _, _, _)
walk_parts(R, src, i, visited) ==
    IF i > Len(rels_of(R, src)) THEN visited
    ELSE LET rel == rels_of(R, src)[i] IN
         IF rel.is_external \/ rel.target \in Range(visited)
         THEN walk_parts(R, src, i + 1, visited)
         ELSE walk_parts(R, src, i + 1,
                         walk_parts(R, rel.target, 1, Append(visited, rel.target)))

\* iter_parts that yields the targets of the package's own relationships
\* and does not walk on from them
package_parts_of_root_only(R) ==
    LET direct == Filter(R[PKG], { r \in Range(R[PKG]) : r.is_external }, 1)
    IN  [i \in 1..Len(direct) |-> direct[i].target]

package_parts(R) == walk_parts(R, PKG, 1, <<>>)

PartSet(R) == Range(package_parts(R))

-----------------------------------------------------------------------------
(* Destinations: a stream, or a path given as its sequence of characters   *)
(* ("." is 46, "/" is 47, "a" is 97, "A" is 65)                            *)

STREAM == [kind |-> "stream", s |-> <<>>]
Path(s) == [kind |-> "str", s |-> s]

\* isinstance(path_or_stream, str)
is_str(dest) == dest.kind = "str"

\* A character is its code point, ord(c), and a string the sequence of its
\* characters.  UpperCase lists, in ascending order, the characters that
\* str.lower() replaces by one other character and LowerCase, at the same
\* positions, that character (CPython 3.11, Unicode 14.0).
UpperCase ==
  <<
    65, 66, 67, 68, 69, 70, 71, 72, 73, 74, 75, 76,
    77, 78, 79, 80, 81, 82, 83, 84, 85, 86, 87, 88,
    89, 90, 192, 193, 194, 195, 196, 197, 198, 199, 200, 201,
    202, 203, 204, 205, 206, 207, 208, 209, 210, 211, 212, 213,
    214, 216, 217, 218, 219, 220, 221, 222, 256, 258, 260, 262,
    264, 266, 268, 270, 272, 274, 276, 278, 280, 282, 284, 286,
    288, 290, 292, 294, 296, 298, 300, 302, 306, 308, 310, 313,
    315, 317, 319, 321, 323, 325, 327, 330, 332, 334, 336, 338,
    340, 342, 344, 346, 348, 350, 352, 354, 356, 358, 360, 362,
    364, 366, 368, 370, 372, 374, 376, 377, 379, 381, 385, 386,
    388, 390, 391, 393, 394, 395, 398, 399, 400, 401, 403, 404,
    406, 407, 408, 412, 413, 415, 416, 418, 420, 422, 423, 425,
    428, 430, 431, 433, 434, 435, 437, 439, 440, 444, 452, 453,
    455, 456, 458, 459, 461, 463, 465, 467, 469, 471, 473, 475,
    478, 480, 482, 484, 486, 488, 490, 492, 494, 497, 498, 500,
    502, 503, 504, 506, 508, 510, 512, 514, 516, 518, 520, 522,
    524, 526, 528, 530, 532, 534, 536, 538, 540, 542, 544, 546,
    548, 550, 552, 554, 556, 558, 560, 562, 570, 571, 573, 574,
    577, 579, 580, 581, 582, 584, 586, 588, 590, 880, 882, 886,
    895, 902, 904, 905, 906, 908, 910, 911, 913, 914, 915, 916,
    917, 918, 919, 920, 921, 922, 923, 924, 925, 926, 927, 928,
    929, 931, 932, 933, 934, 935, 936, 937, 938, 939, 975, 984,
    986, 988, 990, 992, 994, 996, 998, 1000, 1002, 1004, 1006, 1012,
    1015, 1017, 1018, 1021, 1022, 1023, 1024, 1025, 1026, 1027, 1028, 1029,
    1030, 1031, 1032, 1033, 1034, 1035, 1036, 1037, 1038, 1039, 1040, 1041,
    1042, 1043, 1044, 1045, 1046, 1047, 1048, 1049, 1050, 1051, 1052, 1053,
    1054, 1055, 1056, 1057, 1058, 1059, 1060, 1061, 1062, 1063, 1064, 1065,
    1066, 1067, 1068, 1069, 1070, 1071, 1120, 1122, 1124, 1126, 1128, 1130,
    1132, 1134, 1136, 1138, 1140, 1142, 1144, 1146, 1148, 1150, 1152, 1162,
    1164, 1166, 1168, 1170, 1172, 1174, 1176, 1178, 1180, 1182, 1184, 1186,
    1188, 1190, 1192, 1194, 1196, 1198, 1200, 1202, 1204, 1206, 1208, 1210,
    1212, 1214, 1216, 1217, 1219, 1221, 1223, 1225, 1227, 1229, 1232, 1234,
    1236, 1238, 1240, 1242, 1244, 1246, 1248, 1250, 1252, 1254, 1256, 1258,
    1260, 1262, 1264, 1266, 1268, 1270, 1272, 1274, 1276, 1278, 1280, 1282,
    1284, 1286, 1288, 1290, 1292, 1294, 1296, 1298, 1300, 1302, 1304, 1306,
    1308, 1310, 1312, 1314, 1316, 1318, 1320, 1322, 1324, 1326, 1329, 1330,
    1331, 1332, 1333, 1334, 1335, 1336, 1337, 1338, 1339, 1340, 1341, 1342,
    1343, 1344, 1345, 1346, 1347, 1348, 1349, 1350, 1351, 1352, 1353, 1354,
    1355, 1356, 1357, 1358, 1359, 1360, 1361, 1362, 1363, 1364, 1365, 1366,
    4256, 4257, 4258, 4259, 4260, 4261, 4262, 4263, 4264, 4265, 4266, 4267,
    4268, 4269, 4270, 4271, 4272, 4273, 4274, 4275, 4276, 4277, 4278, 4279,
    4280, 4281, 4282, 4283, 4284, 4285, 4286, 4287, 4288, 4289, 4290, 4291,
    4292, 4293, 4295, 4301, 5024, 5025, 5026, 5027, 5028, 5029, 5030, 5031,
    5032, 5033, 5034, 5035, 5036, 5037, 5038, 5039, 5040, 5041, 5042, 5043,
    5044, 5045, 5046, 5047, 5048, 5049, 5050, 5051, 5052, 5053, 5054, 5055,
    5056, 5057, 5058, 5059, 5060, 5061, 5062, 5063, 5064, 5065, 5066, 5067,
    5068, 5069, 5070, 5071, 5072, 5073, 5074, 5075, 5076, 5077, 5078, 5079,
    5080, 5081, 5082, 5083, 5084, 5085, 5086, 5087, 5088, 5089, 5090, 5091,
    5092, 5093, 5094, 5095, 5096, 5097, 5098, 5099, 5100, 5101, 5102, 5103,
    5104, 5105, 5106, 5107, 5108, 5109, 7312, 7313, 7314, 7315, 7316, 7317,
    7318, 7319, 7320, 7321, 7322, 7323, 7324, 7325, 7326, 7327, 7328, 7329,
    7330, 7331, 7332, 7333, 7334, 7335, 7336, 7337, 7338, 7339, 7340, 7341,
    7342, 7343, 7344, 7345, 7346, 7347, 7348, 7349, 7350, 7351, 7352, 7353,
    7354, 7357, 7358, 7359, 7680, 7682, 7684, 7686, 7688, 7690, 7692, 7694,
    7696, 7698, 7700, 7702, 7704, 7706, 7708, 7710, 7712, 7714, 7716, 7718,
    7720, 7722, 7724, 7726, 7728, 7730, 7732, 7734, 7736, 7738, 7740, 7742,
    7744, 7746, 7748, 7750, 7752, 7754, 7756, 7758, 7760, 7762, 7764, 7766,
    7768, 7770, 7772, 7774, 7776, 7778, 7780, 7782, 7784, 7786, 7788, 7790,
    7792, 7794, 7796, 7798, 7800, 7802, 7804, 7806, 7808, 7810, 7812, 7814,
    7816, 7818, 7820, 7822, 7824, 7826, 7828, 7838, 7840, 7842, 7844, 7846,
    7848, 7850, 7852, 7854, 7856, 7858, 7860, 7862, 7864, 7866, 7868, 7870,
    7872, 7874, 7876, 7878, 7880, 7882, 7884, 7886, 7888, 7890, 7892, 7894,
    7896, 7898, 7900, 7902, 7904, 7906, 7908, 7910, 7912, 7914, 7916, 7918,
    7920, 7922, 7924, 7926, 7928, 7930, 7932, 7934, 7944, 7945, 7946, 7947,
    7948, 7949, 7950, 7951, 7960, 7961, 7962, 7963, 7964, 7965, 7976, 7977,
    7978, 7979, 7980, 7981, 7982, 7983, 7992, 7993, 7994, 7995, 7996, 7997,
    7998, 7999, 8008, 8009, 8010, 8011, 8012, 8013, 8025, 8027, 8029, 8031,
    8040, 8041, 8042, 8043, 8044, 8045, 8046, 8047, 8072, 8073, 8074, 8075,
    8076, 8077, 8078, 8079, 8088, 8089, 8090, 8091, 8092, 8093, 8094, 8095,
    8104, 8105, 8106, 8107, 8108, 8109, 8110, 8111, 8120, 8121, 8122, 8123,
    8124, 8136, 8137, 8138, 8139, 8140, 8152, 8153, 8154, 8155, 8168, 8169,
    8170, 8171, 8172, 8184, 8185, 8186, 8187, 8188, 8486, 8490, 8491, 8498,
    8544, 8545, 8546, 8547, 8548, 8549, 8550, 8551, 8552, 8553, 8554, 8555,
    8556, 8557, 8558, 8559, 8579, 9398, 9399, 9400, 9401, 9402, 9403, 9404,
    9405, 9406, 9407, 9408, 9409, 9410, 9411, 9412, 9413, 9414, 9415, 9416,
    9417, 9418, 9419, 9420, 9421, 9422, 9423, 11264, 11265, 11266, 11267, 11268,
    11269, 11270, 11271, 11272, 11273, 11274, 11275, 11276, 11277, 11278, 11279, 11280,
    11281, 11282, 11283, 11284, 11285, 11286, 11287, 11288, 11289, 11290, 11291, 11292,
    11293, 11294, 11295, 11296, 11297, 11298, 11299, 11300, 11301, 11302, 11303, 11304,
    11305, 11306, 11307, 11308, 11309, 11310, 11311, 11360, 11362, 11363, 11364, 11367,
    11369, 11371, 11373, 11374, 11375, 11376, 11378, 11381, 11390, 11391, 11392, 11394,
    11396, 11398, 11400, 11402, 11404, 11406, 11408, 11410, 11412, 11414, 11416, 11418,
    11420, 11422, 11424, 11426, 11428, 11430, 11432, 11434, 11436, 11438, 11440, 11442,
    11444, 11446, 11448, 11450, 11452, 11454, 11456, 11458, 11460, 11462, 11464, 11466,
    11468, 11470, 11472, 11474, 11476, 11478, 11480, 11482, 11484, 11486, 11488, 11490,
    11499, 11501, 11506, 42560, 42562, 42564, 42566, 42568, 42570, 42572, 42574, 42576,
    42578, 42580, 42582, 42584, 42586, 42588, 42590, 42592, 42594, 42596, 42598, 42600,
    42602, 42604, 42624, 42626, 42628, 42630, 42632, 42634, 42636, 42638, 42640, 42642,
    42644, 42646, 42648, 42650, 42786, 42788, 42790, 42792, 42794, 42796, 42798, 42802,
    42804, 42806, 42808, 42810, 42812, 42814, 42816, 42818, 42820, 42822, 42824, 42826,
    42828, 42830, 42832, 42834, 42836, 42838, 42840, 42842, 42844, 42846, 42848, 42850,
    42852, 42854, 42856, 42858, 42860, 42862, 42873, 42875, 42877, 42878, 42880, 42882,
    42884, 42886, 42891, 42893, 42896, 42898, 42902, 42904, 42906, 42908, 42910, 42912,
    42914, 42916, 42918, 42920, 42922, 42923, 42924, 42925, 42926, 42928, 42929, 42930,
    42931, 42932, 42934, 42936, 42938, 42940, 42942, 42944, 42946, 42948, 42949, 42950,
    42951, 42953, 42960, 42966, 42968, 42997, 65313, 65314, 65315, 65316, 65317, 65318,
    65319, 65320, 65321, 65322, 65323, 65324, 65325, 65326, 65327, 65328, 65329, 65330,
    65331, 65332, 65333, 65334, 65335, 65336, 65337, 65338, 66560, 66561, 66562, 66563,
    66564, 66565, 66566, 66567, 66568, 66569, 66570, 66571, 66572, 66573, 66574, 66575,
    66576, 66577, 66578, 66579, 66580, 66581, 66582, 66583, 66584, 66585, 66586, 66587,
    66588, 66589, 66590, 66591, 66592, 66593, 66594, 66595, 66596, 66597, 66598, 66599,
    66736, 66737, 66738, 66739, 66740, 66741, 66742, 66743, 66744, 66745, 66746, 66747,
    66748, 66749, 66750, 66751, 66752, 66753, 66754, 66755, 66756, 66757, 66758, 66759,
    66760, 66761, 66762, 66763, 66764, 66765, 66766, 66767, 66768, 66769, 66770, 66771,
    66928, 66929, 66930, 66931, 66932, 66933, 66934, 66935, 66936, 66937, 66938, 66940,
    66941, 66942, 66943, 66944, 66945, 66946, 66947, 66948, 66949, 66950, 66951, 66952,
    66953, 66954, 66956, 66957, 66958, 66959, 66960, 66961, 66962, 66964, 66965, 68736,
    68737, 68738, 68739, 68740, 68741, 68742, 68743, 68744, 68745, 68746, 68747, 68748,
    68749, 68750, 68751, 68752, 68753, 68754, 68755, 68756, 68757, 68758, 68759, 68760,
    68761, 68762, 68763, 68764, 68765, 68766, 68767, 68768, 68769, 68770, 68771, 68772,
    68773, 68774, 68775, 68776, 68777, 68778, 68779, 68780, 68781, 68782, 68783, 68784,
    68785, 68786, 71840, 71841, 71842, 71843, 71844, 71845, 71846, 71847, 71848, 71849,
    71850, 71851, 71852, 71853, 71854, 71855, 71856, 71857, 71858, 71859, 71860, 71861,
    71862, 71863, 71864, 71865, 71866, 71867, 71868, 71869, 71870, 71871, 93760, 93761,
    93762, 93763, 93764, 93765, 93766, 93767, 93768, 93769, 93770, 93771, 93772, 93773,
    93774, 93775, 93776, 93777, 93778, 93779, 93780, 93781, 93782, 93783, 93784, 93785,
    93786, 93787, 93788, 93789, 93790, 93791, 125184, 125185, 125186, 125187, 125188, 125189,
    125190, 125191, 125192, 125193, 125194, 125195, 125196, 125197, 125198, 125199, 125200, 125201,
    125202, 125203, 125204, 125205, 125206, 125207, 125208, 125209, 125210, 125211, 125212, 125213,
    125214, 125215, 125216, 125217
  >>
LowerCase ==
  <<
    97, 98, 99, 100, 101, 102, 103, 104, 105, 106, 107, 108,
    109, 110, 111, 112, 113, 114, 115, 116, 117, 118, 119, 120,
    121, 122, 224, 225, 226, 227, 228, 229, 230, 231, 232, 233,
    234, 235, 236, 237, 238, 239, 240, 241, 242, 243, 244, 245,
    246, 248, 249, 250, 251, 252, 253, 254, 257, 259, 261, 263,
    265, 267, 269, 271, 273, 275, 277, 279, 281, 283, 285, 287,
    289, 291, 293, 295, 297, 299, 301, 303, 307, 309, 311, 314,
    316, 318, 320, 322, 324, 326, 328, 331, 333, 335, 337, 339,
    341, 343, 345, 347, 349, 351, 353, 355, 357, 359, 361, 363,
    365, 367, 369, 371, 373, 375, 255, 378, 380, 382, 595, 387,
    389, 596, 392, 598, 599, 396, 477, 601, 603, 402, 608, 611,
    617, 616, 409, 623, 626, 629, 417, 419, 421, 640, 424, 643,
    429, 648, 432, 650, 651, 436, 438, 658, 441, 445, 454, 454,
    457, 457, 460, 460, 462, 464, 466, 468, 470, 472, 474, 476,
    479, 481, 483, 485, 487, 489, 491, 493, 495, 499, 499, 501,
    405, 447, 505, 507, 509, 511, 513, 515, 517, 519, 521, 523,
    525, 527, 529, 531, 533, 535, 537, 539, 541, 543, 414, 547,
    549, 551, 553, 555, 557, 559, 561, 563, 11365, 572, 410, 11366,
    578, 384, 649, 652, 583, 585, 587, 589, 591, 881, 883, 887,
    1011, 940, 941, 942, 943, 972, 973, 974, 945, 946, 947, 948,
    949, 950, 951, 952, 953, 954, 955, 956, 957, 958, 959, 960,
    961, 963, 964, 965, 966, 967, 968, 969, 970, 971, 983, 985,
    987, 989, 991, 993, 995, 997, 999, 1001, 1003, 1005, 1007, 952,
    1016, 1010, 1019, 891, 892, 893, 1104, 1105, 1106, 1107, 1108, 1109,
    1110, 1111, 1112, 1113, 1114, 1115, 1116, 1117, 1118, 1119, 1072, 1073,
    1074, 1075, 1076, 1077, 1078, 1079, 1080, 1081, 1082, 1083, 1084, 1085,
    1086, 1087, 1088, 1089, 1090, 1091, 1092, 1093, 1094, 1095, 1096, 1097,
    1098, 1099, 1100, 1101, 1102, 1103, 1121, 1123, 1125, 1127, 1129, 1131,
    1133, 1135, 1137, 1139, 1141, 1143, 1145, 1147, 1149, 1151, 1153, 1163,
    1165, 1167, 1169, 1171, 1173, 1175, 1177, 1179, 1181, 1183, 1185, 1187,
    1189, 1191, 1193, 1195, 1197, 1199, 1201, 1203, 1205, 1207, 1209, 1211,
    1213, 1215, 1231, 1218, 1220, 1222, 1224, 1226, 1228, 1230, 1233, 1235,
    1237, 1239, 1241, 1243, 1245, 1247, 1249, 1251, 1253, 1255, 1257, 1259,
    1261, 1263, 1265, 1267, 1269, 1271, 1273, 1275, 1277, 1279, 1281, 1283,
    1285, 1287, 1289, 1291, 1293, 1295, 1297, 1299, 1301, 1303, 1305, 1307,
    1309, 1311, 1313, 1315, 1317, 1319, 1321, 1323, 1325, 1327, 1377, 1378,
    1379, 1380, 1381, 1382, 1383, 1384, 1385, 1386, 1387, 1388, 1389, 1390,
    1391, 1392, 1393, 1394, 1395, 1396, 1397, 1398, 1399, 1400, 1401, 1402,
    1403, 1404, 1405, 1406, 1407, 1408, 1409, 1410, 1411, 1412, 1413, 1414,
    11520, 11521, 11522, 11523, 11524, 11525, 11526, 11527, 11528, 11529, 11530, 11531,
    11532, 11533, 11534, 11535, 11536, 11537, 11538, 11539, 11540, 11541, 11542, 11543,
    11544, 11545, 11546, 11547, 11548, 11549, 11550, 11551, 11552, 11553, 11554, 11555,
    11556, 11557, 11559, 11565, 43888, 43889, 43890, 43891, 43892, 43893, 43894, 43895,
    43896, 43897, 43898, 43899, 43900, 43901, 43902, 43903, 43904, 43905, 43906, 43907,
    43908, 43909, 43910, 43911, 43912, 43913, 43914, 43915, 43916, 43917, 43918, 43919,
    43920, 43921, 43922, 43923, 43924, 43925, 43926, 43927, 43928, 43929, 43930, 43931,
    43932, 43933, 43934, 43935, 43936, 43937, 43938, 43939, 43940, 43941, 43942, 43943,
    43944, 43945, 43946, 43947, 43948, 43949, 43950, 43951, 43952, 43953, 43954, 43955,
    43956, 43957, 43958, 43959, 43960, 43961, 43962, 43963, 43964, 43965, 43966, 43967,
    5112, 5113, 5114, 5115, 5116, 5117, 4304, 4305, 4306, 4307, 4308, 4309,
    4310, 4311, 4312, 4313, 4314, 4315, 4316, 4317, 4318, 4319, 4320, 4321,
    4322, 4323, 4324, 4325, 4326, 4327, 4328, 4329, 4330, 4331, 4332, 4333,
    4334, 4335, 4336, 4337, 4338, 4339, 4340, 4341, 4342, 4343, 4344, 4345,
    4346, 4349, 4350, 4351, 7681, 7683, 7685, 7687, 7689, 7691, 7693, 7695,
    7697, 7699, 7701, 7703, 7705, 7707, 7709, 7711, 7713, 7715, 7717, 7719,
    7721, 7723, 7725, 7727, 7729, 7731, 7733, 7735, 7737, 7739, 7741, 7743,
    7745, 7747, 7749, 7751, 7753, 7755, 7757, 7759, 7761, 7763, 7765, 7767,
    7769, 7771, 7773, 7775, 7777, 7779, 7781, 7783, 7785, 7787, 7789, 7791,
    7793, 7795, 7797, 7799, 7801, 7803, 7805, 7807, 7809, 7811, 7813, 7815,
    7817, 7819, 7821, 7823, 7825, 7827, 7829, 223, 7841, 7843, 7845, 7847,
    7849, 7851, 7853, 7855, 7857, 7859, 7861, 7863, 7865, 7867, 7869, 7871,
    7873, 7875, 7877, 7879, 7881, 7883, 7885, 7887, 7889, 7891, 7893, 7895,
    7897, 7899, 7901, 7903, 7905, 7907, 7909, 7911, 7913, 7915, 7917, 7919,
    7921, 7923, 7925, 7927, 7929, 7931, 7933, 7935, 7936, 7937, 7938, 7939,
    7940, 7941, 7942, 7943, 7952, 7953, 7954, 7955, 7956, 7957, 7968, 7969,
    7970, 7971, 7972, 7973, 7974, 7975, 7984, 7985, 7986, 7987, 7988, 7989,
    7990, 7991, 8000, 8001, 8002, 8003, 8004, 8005, 8017, 8019, 8021, 8023,
    8032, 8033, 8034, 8035, 8036, 8037, 8038, 8039, 8064, 8065, 8066, 8067,
    8068, 8069, 8070, 8071, 8080, 8081, 8082, 8083, 8084, 8085, 8086, 8087,
    8096, 8097, 8098, 8099, 8100, 8101, 8102, 8103, 8112, 8113, 8048, 8049,
    8115, 8050, 8051, 8052, 8053, 8131, 8144, 8145, 8054, 8055, 8160, 8161,
    8058, 8059, 8165, 8056, 8057, 8060, 8061, 8179, 969, 107, 229, 8526,
    8560, 8561, 8562, 8563, 8564, 8565, 8566, 8567, 8568, 8569, 8570, 8571,
    8572, 8573, 8574, 8575, 8580, 9424, 9425, 9426, 9427, 9428, 9429, 9430,
    9431, 9432, 9433, 9434, 9435, 9436, 9437, 9438, 9439, 9440, 9441, 9442,
    9443, 9444, 9445, 9446, 9447, 9448, 9449, 11312, 11313, 11314, 11315, 11316,
    11317, 11318, 11319, 11320, 11321, 11322, 11323, 11324, 11325, 11326, 11327, 11328,
    11329, 11330, 11331, 11332, 11333, 11334, 11335, 11336, 11337, 11338, 11339, 11340,
    11341, 11342, 11343, 11344, 11345, 11346, 11347, 11348, 11349, 11350, 11351, 11352,
    11353, 11354, 11355, 11356, 11357, 11358, 11359, 11361, 619, 7549, 637, 11368,
    11370, 11372, 593, 625, 592, 594, 11379, 11382, 575, 576, 11393, 11395,
    11397, 11399, 11401, 11403, 11405, 11407, 11409, 11411, 11413, 11415, 11417, 11419,
    11421, 11423, 11425, 11427, 11429, 11431, 11433, 11435, 11437, 11439, 11441, 11443,
    11445, 11447, 11449, 11451, 11453, 11455, 11457, 11459, 11461, 11463, 11465, 11467,
    11469, 11471, 11473, 11475, 11477, 11479, 11481, 11483, 11485, 11487, 11489, 11491,
    11500, 11502, 11507, 42561, 42563, 42565, 42567, 42569, 42571, 42573, 42575, 42577,
    42579, 42581, 42583, 42585, 42587, 42589, 42591, 42593, 42595, 42597, 42599, 42601,
    42603, 42605, 42625, 42627, 42629, 42631, 42633, 42635, 42637, 42639, 42641, 42643,
    42645, 42647, 42649, 42651, 42787, 42789, 42791, 42793, 42795, 42797, 42799, 42803,
    42805, 42807, 42809, 42811, 42813, 42815, 42817, 42819, 42821, 42823, 42825, 42827,
    42829, 42831, 42833, 42835, 42837, 42839, 42841, 42843, 42845, 42847, 42849, 42851,
    42853, 42855, 42857, 42859, 42861, 42863, 42874, 42876, 7545, 42879, 42881, 42883,
    42885, 42887, 42892, 613, 42897, 42899, 42903, 42905, 42907, 42909, 42911, 42913,
    42915, 42917, 42919, 42921, 614, 604, 609, 620, 618, 670, 647, 669,
    43859, 42933, 42935, 42937, 42939, 42941, 42943, 42945, 42947, 42900, 642, 7566,
    42952, 42954, 42961, 42967, 42969, 42998, 65345, 65346, 65347, 65348, 65349, 65350,
    65351, 65352, 65353, 65354, 65355, 65356, 65357, 65358, 65359, 65360, 65361, 65362,
    65363, 65364, 65365, 65366, 65367, 65368, 65369, 65370, 66600, 66601, 66602, 66603,
    66604, 66605, 66606, 66607, 66608, 66609, 66610, 66611, 66612, 66613, 66614, 66615,
    66616, 66617, 66618, 66619, 66620, 66621, 66622, 66623, 66624, 66625, 66626, 66627,
    66628, 66629, 66630, 66631, 66632, 66633, 66634, 66635, 66636, 66637, 66638, 66639,
    66776, 66777, 66778, 66779, 66780, 66781, 66782, 66783, 66784, 66785, 66786, 66787,
    66788, 66789, 66790, 66791, 66792, 66793, 66794, 66795, 66796, 66797, 66798, 66799,
    66800, 66801, 66802, 66803, 66804, 66805, 66806, 66807, 66808, 66809, 66810, 66811,
    66967, 66968, 66969, 66970, 66971, 66972, 66973, 66974, 66975, 66976, 66977, 66979,
    66980, 66981, 66982, 66983, 66984, 66985, 66986, 66987, 66988, 66989, 66990, 66991,
    66992, 66993, 66995, 66996, 66997, 66998, 66999, 67000, 67001, 67003, 67004, 68800,
    68801, 68802, 68803, 68804, 68805, 68806, 68807, 68808, 68809, 68810, 68811, 68812,
    68813, 68814, 68815, 68816, 68817, 68818, 68819, 68820, 68821, 68822, 68823, 68824,
    68825, 68826, 68827, 68828, 68829, 68830, 68831, 68832, 68833, 68834, 68835, 68836,
    68837, 68838, 68839, 68840, 68841, 68842, 68843, 68844, 68845, 68846, 68847, 68848,
    68849, 68850, 71872, 71873, 71874, 71875, 71876, 71877, 71878, 71879, 71880, 71881,
    71882, 71883, 71884, 71885, 71886, 71887, 71888, 71889, 71890, 71891, 71892, 71893,
    71894, 71895, 71896, 71897, 71898, 71899, 71900, 71901, 71902, 71903, 93792, 93793,
    93794, 93795, 93796, 93797, 93798, 93799, 93800, 93801, 93802, 93803, 93804, 93805,
    93806, 93807, 93808, 93809, 93810, 93811, 93812, 93813, 93814, 93815, 93816, 93817,
    93818, 93819, 93820, 93821, 93822, 93823, 125218, 125219, 125220, 125221, 125222, 125223,
    125224, 125225, 125226, 125227, 125228, 125229, 125230, 125231, 125232, 125233, 125234, 125235,
    125236, 125237, 125238, 125239, 125240, 125241, 125242, 125243, 125244, 125245, 125246, 125247,
    125248, 125249, 125250, 125251
  >>

\* the characters str.lower() replaces
UpperSet == { UpperCase[i] : i \in 1..Len(UpperCase) }

\* str.lower() on a string of the one character c: 304, the capital I with
\* dot above, becomes the two characters "i" and combining dot above; a
\* character of UpperCase becomes its lower-case one; every other stays
lower_char(c) ==
    IF c = 304 THEN <<105, 775>>
    ELSE IF c \in UpperSet
    THEN <<LowerCase[CHOOSE i \in 1..Len(UpperCase) : UpperCase[i] = c]>>
    ELSE <<c>>

\* the first..last ranges of the case-ignorable characters
CaseIgnorableRanges ==
  <<
    <<39, 39>>, <<46, 46>>, <<58, 58>>, <<94, 94>>, <<96, 96>>, <<168, 168>>,
    <<173, 173>>, <<175, 175>>, <<180, 180>>, <<183, 184>>, <<688, 879>>, <<884, 885>>,
    <<890, 890>>, <<900, 901>>, <<903, 903>>, <<1155, 1161>>, <<1369, 1369>>, <<1375, 1375>>,
    <<1425, 1469>>, <<1471, 1471>>, <<1473, 1474>>, <<1476, 1477>>, <<1479, 1479>>, <<1524, 1524>>,
    <<1536, 1541>>, <<1552, 1562>>, <<1564, 1564>>, <<1600, 1600>>, <<1611, 1631>>, <<1648, 1648>>,
    <<1750, 1757>>, <<1759, 1768>>, <<1770, 1773>>, <<1807, 1807>>, <<1809, 1809>>, <<1840, 1866>>,
    <<1958, 1968>>, <<2027, 2037>>, <<2042, 2042>>, <<2045, 2045>>, <<2070, 2093>>, <<2137, 2139>>,
    <<2184, 2184>>, <<2192, 2193>>, <<2200, 2207>>, <<2249, 2306>>, <<2362, 2362>>, <<2364, 2364>>,
    <<2369, 2376>>, <<2381, 2381>>, <<2385, 2391>>, <<2402, 2403>>, <<2417, 2417>>, <<2433, 2433>>,
    <<2492, 2492>>, <<2497, 2500>>, <<2509, 2509>>, <<2530, 2531>>, <<2558, 2558>>, <<2561, 2562>>,
    <<2620, 2620>>, <<2625, 2626>>, <<2631, 2632>>, <<2635, 2637>>, <<2641, 2641>>, <<2672, 2673>>,
    <<2677, 2677>>, <<2689, 2690>>, <<2748, 2748>>, <<2753, 2757>>, <<2759, 2760>>, <<2765, 2765>>,
    <<2786, 2787>>, <<2810, 2815>>, <<2817, 2817>>, <<2876, 2876>>, <<2879, 2879>>, <<2881, 2884>>,
    <<2893, 2893>>, <<2901, 2902>>, <<2914, 2915>>, <<2946, 2946>>, <<3008, 3008>>, <<3021, 3021>>,
    <<3072, 3072>>, <<3076, 3076>>, <<3132, 3132>>, <<3134, 3136>>, <<3142, 3144>>, <<3146, 3149>>,
    <<3157, 3158>>, <<3170, 3171>>, <<3201, 3201>>, <<3260, 3260>>, <<3263, 3263>>, <<3270, 3270>>,
    <<3276, 3277>>, <<3298, 3299>>, <<3328, 3329>>, <<3387, 3388>>, <<3393, 3396>>, <<3405, 3405>>,
    <<3426, 3427>>, <<3457, 3457>>, <<3530, 3530>>, <<3538, 3540>>, <<3542, 3542>>, <<3633, 3633>>,
    <<3636, 3642>>, <<3654, 3662>>, <<3761, 3761>>, <<3764, 3772>>, <<3782, 3782>>, <<3784, 3789>>,
    <<3864, 3865>>, <<3893, 3893>>, <<3895, 3895>>, <<3897, 3897>>, <<3953, 3966>>, <<3968, 3972>>,
    <<3974, 3975>>, <<3981, 3991>>, <<3993, 4028>>, <<4038, 4038>>, <<4141, 4144>>, <<4146, 4151>>,
    <<4153, 4154>>, <<4157, 4158>>, <<4184, 4185>>, <<4190, 4192>>, <<4209, 4212>>, <<4226, 4226>>,
    <<4229, 4230>>, <<4237, 4237>>, <<4253, 4253>>, <<4348, 4348>>, <<4957, 4959>>, <<5906, 5908>>,
    <<5938, 5939>>, <<5970, 5971>>, <<6002, 6003>>, <<6068, 6069>>, <<6071, 6077>>, <<6086, 6086>>,
    <<6089, 6099>>, <<6103, 6103>>, <<6109, 6109>>, <<6155, 6159>>, <<6211, 6211>>, <<6277, 6278>>,
    <<6313, 6313>>, <<6432, 6434>>, <<6439, 6440>>, <<6450, 6450>>, <<6457, 6459>>, <<6679, 6680>>,
    <<6683, 6683>>, <<6742, 6742>>, <<6744, 6750>>, <<6752, 6752>>, <<6754, 6754>>, <<6757, 6764>>,
    <<6771, 6780>>, <<6783, 6783>>, <<6823, 6823>>, <<6832, 6862>>, <<6912, 6915>>, <<6964, 6964>>,
    <<6966, 6970>>, <<6972, 6972>>, <<6978, 6978>>, <<7019, 7027>>, <<7040, 7041>>, <<7074, 7077>>,
    <<7080, 7081>>, <<7083, 7085>>, <<7142, 7142>>, <<7144, 7145>>, <<7149, 7149>>, <<7151, 7153>>,
    <<7212, 7219>>, <<7222, 7223>>, <<7288, 7293>>, <<7376, 7378>>, <<7380, 7392>>, <<7394, 7400>>,
    <<7405, 7405>>, <<7412, 7412>>, <<7416, 7417>>, <<7468, 7530>>, <<7544, 7544>>, <<7579, 7679>>,
    <<8125, 8125>>, <<8127, 8129>>, <<8141, 8143>>, <<8157, 8159>>, <<8173, 8175>>, <<8189, 8190>>,
    <<8203, 8207>>, <<8216, 8217>>, <<8228, 8228>>, <<8231, 8231>>, <<8234, 8238>>, <<8288, 8292>>,
    <<8294, 8303>>, <<8305, 8305>>, <<8319, 8319>>, <<8336, 8348>>, <<8400, 8432>>, <<11388, 11389>>,
    <<11503, 11505>>, <<11631, 11631>>, <<11647, 11647>>, <<11744, 11775>>, <<11823, 11823>>, <<12293, 12293>>,
    <<12330, 12333>>, <<12337, 12341>>, <<12347, 12347>>, <<12441, 12446>>, <<12540, 12542>>, <<40981, 40981>>,
    <<42232, 42237>>, <<42508, 42508>>, <<42607, 42610>>, <<42612, 42621>>, <<42623, 42623>>, <<42652, 42655>>,
    <<42736, 42737>>, <<42752, 42785>>, <<42864, 42864>>, <<42888, 42890>>, <<42994, 42996>>, <<43000, 43001>>,
    <<43010, 43010>>, <<43014, 43014>>, <<43019, 43019>>, <<43045, 43046>>, <<43052, 43052>>, <<43204, 43205>>,
    <<43232, 43249>>, <<43263, 43263>>, <<43302, 43309>>, <<43335, 43345>>, <<43392, 43394>>, <<43443, 43443>>,
    <<43446, 43449>>, <<43452, 43453>>, <<43471, 43471>>, <<43493, 43494>>, <<43561, 43566>>, <<43569, 43570>>,
    <<43573, 43574>>, <<43587, 43587>>, <<43596, 43596>>, <<43632, 43632>>, <<43644, 43644>>, <<43696, 43696>>,
    <<43698, 43700>>, <<43703, 43704>>, <<43710, 43711>>, <<43713, 43713>>, <<43741, 43741>>, <<43756, 43757>>,
    <<43763, 43764>>, <<43766, 43766>>, <<43867, 43871>>, <<43881, 43883>>, <<44005, 44005>>, <<44008, 44008>>,
    <<44013, 44013>>, <<64286, 64286>>, <<64434, 64450>>, <<65024, 65039>>, <<65043, 65043>>, <<65056, 65071>>,
    <<65106, 65106>>, <<65109, 65109>>, <<65279, 65279>>, <<65287, 65287>>, <<65294, 65294>>, <<65306, 65306>>,
    <<65342, 65342>>, <<65344, 65344>>, <<65392, 65392>>, <<65438, 65439>>, <<65507, 65507>>, <<65529, 65531>>,
    <<66045, 66045>>, <<66272, 66272>>, <<66422, 66426>>, <<67456, 67461>>, <<67463, 67504>>, <<67506, 67514>>,
    <<68097, 68099>>, <<68101, 68102>>, <<68108, 68111>>, <<68152, 68154>>, <<68159, 68159>>, <<68325, 68326>>,
    <<68900, 68903>>, <<69291, 69292>>, <<69446, 69456>>, <<69506, 69509>>, <<69633, 69633>>, <<69688, 69702>>,
    <<69744, 69744>>, <<69747, 69748>>, <<69759, 69761>>, <<69811, 69814>>, <<69817, 69818>>, <<69821, 69821>>,
    <<69826, 69826>>, <<69837, 69837>>, <<69888, 69890>>, <<69927, 69931>>, <<69933, 69940>>, <<70003, 70003>>,
    <<70016, 70017>>, <<70070, 70078>>, <<70089, 70092>>, <<70095, 70095>>, <<70191, 70193>>, <<70196, 70196>>,
    <<70198, 70199>>, <<70206, 70206>>, <<70367, 70367>>, <<70371, 70378>>, <<70400, 70401>>, <<70459, 70460>>,
    <<70464, 70464>>, <<70502, 70508>>, <<70512, 70516>>, <<70712, 70719>>, <<70722, 70724>>, <<70726, 70726>>,
    <<70750, 70750>>, <<70835, 70840>>, <<70842, 70842>>, <<70847, 70848>>, <<70850, 70851>>, <<71090, 71093>>,
    <<71100, 71101>>, <<71103, 71104>>, <<71132, 71133>>, <<71219, 71226>>, <<71229, 71229>>, <<71231, 71232>>,
    <<71339, 71339>>, <<71341, 71341>>, <<71344, 71349>>, <<71351, 71351>>, <<71453, 71455>>, <<71458, 71461>>,
    <<71463, 71467>>, <<71727, 71735>>, <<71737, 71738>>, <<71995, 71996>>, <<71998, 71998>>, <<72003, 72003>>,
    <<72148, 72151>>, <<72154, 72155>>, <<72160, 72160>>, <<72193, 72202>>, <<72243, 72248>>, <<72251, 72254>>,
    <<72263, 72263>>, <<72273, 72278>>, <<72281, 72283>>, <<72330, 72342>>, <<72344, 72345>>, <<72752, 72758>>,
    <<72760, 72765>>, <<72767, 72767>>, <<72850, 72871>>, <<72874, 72880>>, <<72882, 72883>>, <<72885, 72886>>,
    <<73009, 73014>>, <<73018, 73018>>, <<73020, 73021>>, <<73023, 73029>>, <<73031, 73031>>, <<73104, 73105>>,
    <<73109, 73109>>, <<73111, 73111>>, <<73459, 73460>>, <<78896, 78904>>, <<92912, 92916>>, <<92976, 92982>>,
    <<92992, 92995>>, <<94031, 94031>>, <<94095, 94111>>, <<94176, 94177>>, <<94179, 94180>>, <<110576, 110579>>,
    <<110581, 110587>>, <<110589, 110590>>, <<113821, 113822>>, <<113824, 113827>>, <<118528, 118573>>, <<118576, 118598>>,
    <<119143, 119145>>, <<119155, 119170>>, <<119173, 119179>>, <<119210, 119213>>, <<119362, 119364>>, <<121344, 121398>>,
    <<121403, 121452>>, <<121461, 121461>>, <<121476, 121476>>, <<121499, 121503>>, <<121505, 121519>>, <<122880, 122886>>,
    <<122888, 122904>>, <<122907, 122913>>, <<122915, 122916>>, <<122918, 122922>>, <<123184, 123197>>, <<123566, 123566>>,
    <<123628, 123631>>, <<125136, 125142>>, <<125252, 125259>>, <<127995, 127999>>, <<917505, 917505>>, <<917536, 917631>>,
    <<917760, 917999>>
  >>

\* the first..last ranges of the cased characters that are not case-ignorable
CasedRanges ==
  <<
    <<65, 90>>, <<97, 122>>, <<170, 170>>, <<181, 181>>, <<186, 186>>, <<192, 214>>,
    <<216, 246>>, <<248, 442>>, <<444, 447>>, <<452, 659>>, <<661, 687>>, <<880, 883>>,
    <<886, 887>>, <<891, 893>>, <<895, 895>>, <<902, 902>>, <<904, 906>>, <<908, 908>>,
    <<910, 929>>, <<931, 1013>>, <<1015, 1153>>, <<1162, 1327>>, <<1329, 1366>>, <<1376, 1416>>,
    <<4256, 4293>>, <<4295, 4295>>, <<4301, 4301>>, <<4304, 4346>>, <<4349, 4351>>, <<5024, 5109>>,
    <<5112, 5117>>, <<7296, 7304>>, <<7312, 7354>>, <<7357, 7359>>, <<7424, 7467>>, <<7531, 7543>>,
    <<7545, 7578>>, <<7680, 7957>>, <<7960, 7965>>, <<7968, 8005>>, <<8008, 8013>>, <<8016, 8023>>,
    <<8025, 8025>>, <<8027, 8027>>, <<8029, 8029>>, <<8031, 8061>>, <<8064, 8116>>, <<8118, 8124>>,
    <<8126, 8126>>, <<8130, 8132>>, <<8134, 8140>>, <<8144, 8147>>, <<8150, 8155>>, <<8160, 8172>>,
    <<8178, 8180>>, <<8182, 8188>>, <<8450, 8450>>, <<8455, 8455>>, <<8458, 8467>>, <<8469, 8469>>,
    <<8473, 8477>>, <<8484, 8484>>, <<8486, 8486>>, <<8488, 8488>>, <<8490, 8493>>, <<8495, 8500>>,
    <<8505, 8505>>, <<8508, 8511>>, <<8517, 8521>>, <<8526, 8526>>, <<8544, 8575>>, <<8579, 8580>>,
    <<9398, 9449>>, <<11264, 11387>>, <<11390, 11492>>, <<11499, 11502>>, <<11506, 11507>>, <<11520, 11557>>,
    <<11559, 11559>>, <<11565, 11565>>, <<42560, 42605>>, <<42624, 42651>>, <<42786, 42863>>, <<42865, 42887>>,
    <<42891, 42894>>, <<42896, 42954>>, <<42960, 42961>>, <<42963, 42963>>, <<42965, 42969>>, <<42997, 42998>>,
    <<43002, 43002>>, <<43824, 43866>>, <<43872, 43880>>, <<43888, 43967>>, <<64256, 64262>>, <<64275, 64279>>,
    <<65313, 65338>>, <<65345, 65370>>, <<66560, 66639>>, <<66736, 66771>>, <<66776, 66811>>, <<66928, 66938>>,
    <<66940, 66954>>, <<66956, 66962>>, <<66964, 66965>>, <<66967, 66977>>, <<66979, 66993>>, <<66995, 67001>>,
    <<67003, 67004>>, <<68736, 68786>>, <<68800, 68850>>, <<71840, 71903>>, <<93760, 93823>>, <<119808, 119892>>,
    <<119894, 119964>>, <<119966, 119967>>, <<119970, 119970>>, <<119973, 119974>>, <<119977, 119980>>, <<119982, 119993>>,
    <<119995, 119995>>, <<119997, 120003>>, <<120005, 120069>>, <<120071, 120074>>, <<120077, 120084>>, <<120086, 120092>>,
    <<120094, 120121>>, <<120123, 120126>>, <<120128, 120132>>, <<120134, 120134>>, <<120138, 120144>>, <<120146, 120485>>,
    <<120488, 120512>>, <<120514, 120538>>, <<120540, 120570>>, <<120572, 120596>>, <<120598, 120628>>, <<120630, 120654>>,
    <<120656, 120686>>, <<120688, 120712>>, <<120714, 120744>>, <<120746, 120770>>, <<120772, 120779>>, <<122624, 122633>>,
    <<122635, 122654>>, <<125184, 125251>>, <<127280, 127305>>, <<127312, 127337>>, <<127344, 127369>>
  >>

CaseIgnorable ==
    UNION { CaseIgnorableRanges[k][1]..CaseIgnorableRanges[k][2] : k \in 1..Len(CaseIgnorableRanges) }

Cased ==
    UNION { CasedRanges[k][1]..CasedRanges[k][2] : k \in 1..Len(CasedRanges) }

\* str.lower() on the capital sigma (931) at position i of s: it is the final
\* sigma when the nearest character before it that is not case-ignorable is
\* cased and the nearest such character after it, if any, is not
final_sigma(s, i) ==
    LET before == { j \in 1..(i - 1) : s[j] \notin CaseIgnorable }
        after == { j \in (i + 1)..Len(s) : s[j] \notin CaseIgnorable }
    IN  /\ before # {}
        /\ s[CHOOSE j \in before : \A k \in before : k <= j] \in Cased
        /\ \/ after = {}
           \/ s[CHOOSE j \in after : \A k \in after : j <= k] \notin Cased

RECURSIVE lower_from(_, _)
\* the characters of s.lower() that come from position i of s onwards
lower_from(s, i) ==
    IF i > Len(s) THEN <<>>
    ELSE (IF s[i] = 931
          THEN <<IF final_sigma(s, i) THEN 962 ELSE 963>>
          ELSE lower_char(s[i])) \o lower_from(s, i + 1)

\* str.lower()
lower(s) == lower_from(s, 1)

\* str.rfind(c): the last position of c in s, 0 when there is none
rfind(s, c) ==
    IF \E i \in 1..Len(s) : s[i] = c
    THEN CHOOSE i \in 1..Len(s) : s[i] = c /\ \A j \in (i + 1)..Len(s) : s[j] # c
    ELSE 0

RECURSIVE splitext_scan(_, _, _)
\* the loop of os.path.splitext that skips the leading dots of the file name
splitext_scan(p, filenameIndex, dotIndex) ==
    IF filenameIndex >= dotIndex THEN <<>>
    ELSE IF p[filenameIndex] # 46 THEN SubSeq(p, dotIndex, Len(p))
    ELSE splitext_scan(p, filenameIndex + 1, dotIndex)

\* os.path.splitext(p)[1]
splitext_ext(p) ==
    LET sepIndex == rfind(p, 47)
        dotIndex == rfind(p, 46)
    IN  IF dotIndex > sepIndex THEN splitext_scan(p, sepIndex + 1, dotIndex) ELSE <<>>

\* ".docm" and ".docx"
DOT_DOCM == <<46, 100, 111, 99, 109>>
DOT_DOCX == <<46, 100, 111, 99, 120>>

\* str.endswith(suffix)
endswith(s, suffix) ==
    /\ Len(s) >= Len(suffix)
    /\ SubSeq(s, Len(s) - Len(suffix) + 1, Len(s)) = suffix

\* _should_preserve_macros comparing the extension without lower()
should_preserve_macros_case_sensitive(path_or_stream, preserve_macros) ==
    IF preserve_macros # "None" THEN preserve_macros = "True"
    ELSE IF ~is_str(path_or_stream) THEN FALSE
    ELSE splitext_ext(path_or_stream.s) = DOT_DOCM

\* DocumentPart._should_preserve_macros; preserve_macros is "None", "True" or "False"
should_preserve_macros(path_or_stream, preserve_macros) ==
    IF preserve_macros # "None" THEN preserve_macros = "True"
    ELSE IF ~is_str(path_or_stream) THEN FALSE
    ELSE lower(splitext_ext(path_or_stream.s)) = DOT_DOCM

\* save(), lines 145-148: the destination handed to package.save after stripping
corrected_path(path_or_stream) ==
    IF is_str(path_or_stream) /\ endswith(lower(path_or_stream.s), DOT_DOCM)
    THEN Path(SubSeq(path_or_stream.s, 1, Len(path_or_stream.s) - 5) \o DOT_DOCX)
    ELSE path_or_stream

-----------------------------------------------------------------------------
(* The macro-stripping steps of save()                                     *)

\* del rels[rId] on the relationships of one source
del_rel(rs, rId) == Filter(rs, { r \in Range(rs) : r.rId = rId }, 1)

\* the deletion of lines 246-248 without the test of the target
del_rels_to_any_target(rs, part) ==
    Filter(rs, { r \in Range(rs) : ~r.is_external }, 1)

\* the relationships of one source without the internal ones that target part
del_rels_to(rs, part) ==
    Filter(rs, { r \in Range(rs) : ~r.is_external /\ r.target = part }, 1)

\* control_elem.getparent().remove(control_elem) for every w:control with r:id = rId
remove_control_elements(M, rId) ==
    Filter(M, { e \in Range(M) : e.tag = "w:control" /\ e.rid = rId }, 1)

RECURSIVE remove_macro_loop(_, _, _, _)
\* the loop over rids_to_remove of _remove_macro_relationships
remove_macro_loop(R, M, rids, i) ==
    IF i > Len(rids) THEN [rels |-> R, markup |-> M]
    ELSE remove_macro_loop([R EXCEPT ![DOC] = del_rel(R[DOC], rids[i])],
                           remove_control_elements(M, rids[i]), rids, i + 1)

\* _remove_macro_relationships with the control reltype left out of macro_reltypes
remove_macro_relationships_vba_only(R, M) ==
    LET keep == { r \in Range(R[DOC]) :
                    r.reltype \notin macro_reltypes
                    \/ r.reltype = "http://schemas.openxmlformats.org/officeDocument/2006/relationships/control" }
        rids_to_remove == [i \in 1..Len(Filter(R[DOC], keep, 1)) |-> Filter(R[DOC], keep, 1)[i].rId]
    IN  remove_macro_loop(R, M, rids_to_remove, 1)

\* DocumentPart._remove_macro_relationships
remove_macro_relationships(R, M) ==
    LET keep == { r \in Range(R[DOC]) : r.reltype \notin macro_reltypes }
        rids_to_remove == [i \in 1..Len(Filter(R[DOC], keep, 1)) |-> Filter(R[DOC], keep, 1)[i].rId]
    IN  remove_macro_loop(R, M, rids_to_remove, 1)

\* the test of _remove_vba_parts without its partname branch
is_vba_part_by_type_only(ct, part) ==
    part_content_type(ct, part) \in vba_content_types

\* the test of _remove_vba_parts on one part, lines 226-230
is_vba_part(ct, part) ==
    \/ part_content_type(ct, part) \in vba_content_types
    \/ part.pn \in vba_partname_patterns

\* the round without lines 238-240, the package-level relationships
remove_rels_to_part_skipping_package(R, part_to_remove) ==
    LET others == PartSet(R) \ {part_to_remove}
    IN  [src \in DOMAIN R |->
            IF src \in others THEN del_rels_to(R[src], part_to_remove) ELSE R[src]]

\* one round of the loop over parts_to_remove, lines 237-248
remove_rels_to_part(R, part_to_remove) ==
    LET R1 == [R EXCEPT ![PKG] = del_rels_to(R[PKG], part_to_remove)]
        others == PartSet(R1) \ {part_to_remove}
    IN  [src \in DOMAIN R1 |->
            IF src \in others THEN del_rels_to(R1[src], part_to_remove) ELSE R1[src]]

RECURSIVE remove_vba_loop(_, _, _)
remove_vba_loop(R, parts_to_remove, i) ==
    IF i > Len(parts_to_remove) THEN R
    ELSE remove_vba_loop(remove_rels_to_part(R, parts_to_remove[i]), parts_to_remove, i + 1)

\* DocumentPart._remove_vba_parts
remove_vba_parts(R, ct) ==
    LET parts == package_parts(R)
        parts_to_remove == Filter(parts, { p \in Range(parts) : ~is_vba_part(ct, p) }, 1)
    IN  remove_vba_loop(R, parts_to_remove, 1)

-----------------------------------------------------------------------------
(* Operations                                                              *)

Snapshot == [content_type |-> content_type, rels |-> rels, markup |-> markup]

\* The behaviours of the library code that the document part calls and that
\* is not part of this file.  NumberingPart.new() builds the empty numbering
\* part ("part"), as the accessor's docstring says, or raises
\* NotImplementedError, as the class of python-docx does.  The rId -> part
\* mapping of related_parts follows the relationships ("current"), or is the
\* dict of python-docx that gains an entry with every relationship added and
\* keeps it when a relationship is deleted ("kept").
Libraries ==
    [NumberingPart_new : {"part", "NotImplementedError"}, related_parts : {"current", "kept"}]

\* related_parts after a call that took the relationships from before to
\* after: the relationships the document part gained have their entries; the
\* entries of those it lost are gone when the mapping follows the relationships
related_parts_after(tp, before, after) ==
    LET added == { r \in Range(after[DOC]) : r \notin Range(before[DOC]) }
        filled == { e \in tp : \A r \in added : r.rId # e.rId }
                     \cup { [rId |-> r.rId, target |-> r.target] :
                              r \in { x \in added : ~x.is_external } }
    IN  IF library.related_parts = "kept" THEN filled
        ELSE { e \in filled : \E r \in Range(after[DOC]) :
                                 r.rId = e.rId /\ r.target = e.target /\ ~r.is_external }

\* the record of one call: rId is the rId passed or returned (0 when none),
\* raised the exception the call ended with ("none" when it returned),
\* writes the number of times the call invoked package.save
OpRecord(name, dest, flag, preserve, stripped, saved, ret) ==
    [name |-> name, dest |-> dest, flag |-> flag, preserve |-> preserve,
     stripped |-> stripped, saved |-> saved, ret |-> ret,
     rId |-> 0, raised |-> "none", writes |-> 0]

NoOp == OpRecord("none", STREAM, "None", FALSE, FALSE, STREAM, NoPart)

\* no save() is in progress
Idle == [pc |-> "idle", todo |-> <<>>, rids |-> <<>>, parts |-> <<>>, dest |-> STREAM,
         flag |-> "None", preserve |-> FALSE, stripped |-> FALSE]

\* how self.package.save(path_or_stream) ends: it returns, or raises the I/O fault
SerializerOutcomes == {"none", "IOError"}

\* will_strip_macros without the test of the content type
will_strip_macros_any_type(ct, should_preserve) == ~should_preserve

\* save(), lines 134-136
will_strip_macros(ct, should_preserve) ==
    ct = CT_WML_DOCUMENT_MACRO_ENABLED_MAIN /\ ~should_preserve

\* a save() that puts the package back as it was when the serializer fails
save_rolling_back(path_or_stream, preserve_macros) ==
    LET should_preserve == should_preserve_macros(path_or_stream, preserve_macros)
        will_strip == will_strip_macros(content_type, should_preserve)
        after_rels == remove_macro_relationships(rels, markup)
        dest == IF will_strip THEN corrected_path(path_or_stream) ELSE path_or_stream
    IN  /\ calls < MaxCalls
        /\ calls' = calls + 1
        /\ pre' = Snapshot
        /\ \E outcome \in SerializerOutcomes :
             /\ IF will_strip /\ outcome = "none"
                THEN /\ content_type' = CT_WML_DOCUMENT_MAIN
                     /\ markup' = after_rels.markup
                     /\ rels' = remove_vba_parts(after_rels.rels, CT_WML_DOCUMENT_MAIN)
                ELSE UNCHANGED <<content_type, rels, markup>>
             /\ op' = [OpRecord("save", path_or_stream, preserve_macros, should_preserve,
                                will_strip, dest, NoPart)
                         EXCEPT !.raised = outcome, !.writes = 1]
        /\ related_parts' = related_parts_after(related_parts, rels, rels')
        /\ UNCHANGED <<library, numbering_cache, next_oid, saving>>

\* DocumentPart.save(path_or_stream, preserve_macros)
save(path_or_stream, preserve_macros) ==
    LET should_preserve == should_preserve_macros(path_or_stream, preserve_macros)
        will_strip == will_strip_macros(content_type, should_preserve)
        after_rels == remove_macro_relationships(rels, markup)
        dest == IF will_strip THEN corrected_path(path_or_stream) ELSE path_or_stream
    IN  /\ calls < MaxCalls
        /\ calls' = calls + 1
        /\ pre' = Snapshot
        /\ IF will_strip
           THEN /\ content_type' = CT_WML_DOCUMENT_MAIN
                /\ markup' = after_rels.markup
                /\ rels' = remove_vba_parts(after_rels.rels, CT_WML_DOCUMENT_MAIN)
           ELSE UNCHANGED <<content_type, rels, markup>>
        /\ \E outcome \in SerializerOutcomes :
             op' = [OpRecord("save", path_or_stream, preserve_macros, should_preserve,
                             will_strip, dest, NoPart)
                      EXCEPT !.raised = outcome, !.writes = 1]
        /\ related_parts' = related_parts_after(related_parts, rels, rels')
        /\ UNCHANGED <<library, numbering_cache, next_oid, saving>>

-----------------------------------------------------------------------------
(* Loaded packages                                                         *)

Rel(rId, reltype, target, is_external) ==
    [rId |-> rId, reltype |-> reltype, target |-> target, is_external |-> is_external]

\* related_parts after load: an entry for every relationship that is not external
loaded_related_parts(rs) ==
    { [rId |-> r.rId, target |-> r.target] : r \in { x \in Range(rs) : ~x.is_external } }

\* a package holding the document part only
BaseRels ==
    [src \in {PKG, DOC} \cup LoadedParts |->
        IF src = PKG THEN <<Rel(1, RT_OFFICE_DOCUMENT, DOC, FALSE)>> ELSE <<>>]

\* R with one more relationship of src, under the next rId of src
AddRel(R, src, reltype, target) ==
    [R EXCEPT ![src] = Append(@, Rel(Len(@) + 1, reltype, target, target = EXT))]

\* partnames are unique within a package
NameFree(R, target) ==
    target = EXT \/ \A p \in PartSet(R) : p.pn = target.pn => p = target

\* the packages obtained from R by one more relationship
Extend(R, kinds, docTypes) ==
    { AddRel(R, DOC, t, q) : t \in docTypes, q \in { k \in kinds \cup {EXT} : NameFree(R, k) } }
    \cup { AddRel(R, PKG, RT_IMAGE, q) : q \in { k \in kinds : NameFree(R, k) } }
    \cup UNION { { AddRel(R, p, t, q) :
                     t \in { RT_IMAGE, "http://schemas.openxmlformats.org/officeDocument/2006/relationships/control" },
                     q \in { k \in kinds \cup {EXT} : NameFree(R, k) } }
                 : p \in PartSet(R) \cap LoadedParts }

RECURSIVE Packages(_, _, _)
\* the packages with at most n relationships besides the officeDocument one
Packages(n, kinds, docTypes) ==
    IF n = 0 THEN {BaseRels}
    ELSE LET smaller == Packages(n - 1, kinds, docTypes)
         IN  smaller \cup UNION { Extend(R, kinds, docTypes) : R \in smaller }

\* the elements a document markup may hold for the relationships of R: a
\* w:control for a control relationship, a w:headerReference for a header one
Elements(R) ==
    { [tag |-> "w:control", rid |-> r.rId] :
        r \in { x \in Range(R[DOC]) :
                  x.reltype = "http://schemas.openxmlformats.org/officeDocument/2006/relationships/control" } }
    \cup { [tag |-> "w:headerReference", rid |-> r.rId] :
             r \in { x \in Range(R[DOC]) : x.reltype = RT_HEADER } }

Markups(R) == UNION { [1..n -> Elements(R)] : n \in 0..MaxElems }

MacroKinds == { p \in LoadedParts : p.oid \in 2..7 }

Flags == {"None", "True", "False"}

DOCM == Path(<<97>> \o DOT_DOCM)

\* save() calls no accessor and no lookup by rId, so it runs the same with
\* either library: the save-only specifications take python-docx's own
SaveLibraries ==
    { l \in Libraries : l.NumberingPart_new = "NotImplementedError" /\ l.related_parts = "kept" }

InitStrip ==
    /\ content_type \in {CT_WML_DOCUMENT_MACRO_ENABLED_MAIN, CT_WML_DOCUMENT_MAIN}
    /\ rels \in Packages(MaxRels, MacroKinds, macro_reltypes \cup {RT_HEADER})
    /\ markup \in Markups(rels)
    /\ related_parts = loaded_related_parts(rels[DOC])
    /\ library \in SaveLibraries
    /\ numbering_cache = NoPart
    /\ next_oid = FirstNewOid
    /\ saving = Idle
    /\ calls = 0
    /\ pre = Snapshot
    /\ op = NoOp

NextStrip == \E d \in {STREAM, DOCM}, f \in Flags : save(d, f)

SpecStrip == InitStrip /\ [][NextStrip]_vars

-----------------------------------------------------------------------------
(* save() taken one step at a time, with a fault possible between steps    *)

\* the order of the if-block of save() with the pruning before the rewrite
strip_steps_pruning_first == <<"cascade", "sweep", "rewrite">>

\* the if-block of save(), lines 140-143, in program order
strip_steps == <<"rewrite", "cascade", "sweep">>

\* rids_to_remove of _remove_macro_relationships, lines 185-188
rids_to_remove(R) ==
    LET keep == { r \in Range(R[DOC]) : r.reltype \notin macro_reltypes }
    IN  [i \in 1..Len(Filter(R[DOC], keep, 1)) |-> Filter(R[DOC], keep, 1)[i].rId]

\* parts_to_remove of _remove_vba_parts, lines 223-230
parts_to_remove(R, ct) ==
    Filter(package_parts(R), { p \in Range(package_parts(R)) : ~is_vba_part(ct, p) }, 1)

\* a save() that also strips when the document part still has a macro relationship
save_begin_resuming(path_or_stream, preserve_macros) ==
    LET should_preserve == should_preserve_macros(path_or_stream, preserve_macros)
        will_strip ==
            \/ will_strip_macros(content_type, should_preserve)
            \/ ~should_preserve /\ \E r \in Range(rels[DOC]) : r.reltype \in macro_reltypes
    IN  /\ saving.pc = "idle"
        /\ calls < MaxCalls
        /\ calls' = calls + 1
        /\ pre' = Snapshot
        /\ saving' = [pc |-> "run", todo |-> IF will_strip THEN strip_steps ELSE <<>>,
                      rids |-> <<>>, parts |-> <<>>, dest |-> path_or_stream,
                      flag |-> preserve_macros, preserve |-> should_preserve,
                      stripped |-> will_strip]
        /\ UNCHANGED <<related_parts, library, content_type, rels, markup, numbering_cache, next_oid, op>>

\* the call of save(): decide, lines 131-136
save_begin(path_or_stream, preserve_macros) ==
    LET should_preserve == should_preserve_macros(path_or_stream, preserve_macros)
        will_strip == will_strip_macros(content_type, should_preserve)
    IN  /\ saving.pc = "idle"
        /\ calls < MaxCalls
        /\ calls' = calls + 1
        /\ pre' = Snapshot
        /\ saving' = [pc |-> "run", todo |-> IF will_strip THEN strip_steps ELSE <<>>,
                      rids |-> <<>>, parts |-> <<>>, dest |-> path_or_stream,
                      flag |-> preserve_macros, preserve |-> should_preserve,
                      stripped |-> will_strip]
        /\ UNCHANGED <<related_parts, library, content_type, rels, markup, numbering_cache, next_oid, op>>

\* work of the if-block is left
InStrip == saving.pc = "run" /\ (saving.todo # <<>> \/ saving.rids # <<>> \/ saving.parts # <<>>)

\* one step of the if-block: a round of a loop, or the next statement
save_step ==
    /\ InStrip
    /\ CASE saving.rids # <<>> ->
              \* lines 190-198 for one rId
              /\ markup' = remove_control_elements(markup, Head(saving.rids))
              /\ rels' = [rels EXCEPT ![DOC] = del_rel(rels[DOC], Head(saving.rids))]
              /\ saving' = [saving EXCEPT !.rids = Tail(@)]
              /\ UNCHANGED content_type
         [] saving.rids = <<>> /\ saving.parts # <<>> ->
              \* lines 237-248 for one part
              /\ rels' = remove_rels_to_part(rels, Head(saving.parts))
              /\ saving' = [saving EXCEPT !.parts = Tail(@)]
              /\ UNCHANGED <<content_type, markup>>
         [] OTHER ->
              CASE Head(saving.todo) = "rewrite" ->
                     /\ content_type' = CT_WML_DOCUMENT_MAIN
                     /\ saving' = [saving EXCEPT !.todo = Tail(@)]
                     /\ UNCHANGED <<rels, markup>>
                [] Head(saving.todo) = "cascade" ->
                     /\ saving' = [saving EXCEPT !.todo = Tail(@), !.rids = rids_to_remove(rels)]
                     /\ UNCHANGED <<content_type, rels, markup>>
                [] Head(saving.todo) = "sweep" ->
                     /\ saving' = [saving EXCEPT !.todo = Tail(@),
                                                 !.parts = parts_to_remove(rels, content_type)]
                     /\ UNCHANGED <<content_type, rels, markup>>
    /\ related_parts' = related_parts_after(related_parts, rels, rels')
    /\ UNCHANGED <<library, numbering_cache, next_oid, calls, pre, op>>

\* an exception raised within the if-block ends the call where it stands
save_fault ==
    /\ InStrip
    /\ saving' = Idle
    /\ op' = [OpRecord("save", saving.dest, saving.flag, saving.preserve, saving.stripped,
                       saving.dest, NoPart)
                EXCEPT !.raised = "Exception"]
    /\ UNCHANGED <<related_parts, library, content_type, rels, markup, numbering_cache, next_oid,
                   calls, pre>>

\* lines 147-150: the path correction and the serializer
save_serialize ==
    /\ saving.pc = "run"
    /\ ~InStrip
    /\ saving' = Idle
    /\ \E outcome \in SerializerOutcomes :
         op' = [OpRecord("save", saving.dest, saving.flag, saving.preserve, saving.stripped,
                         IF saving.stripped THEN corrected_path(saving.dest) ELSE saving.dest,
                         NoPart)
                  EXCEPT !.raised = outcome, !.writes = 1]
    /\ UNCHANGED <<related_parts, library, content_type, rels, markup, numbering_cache, next_oid,
                   calls, pre>>

NextFault ==
    \/ \E d \in {STREAM, DOCM}, f \in Flags : save_begin(d, f)
    \/ save_step
    \/ save_fault
    \/ save_serialize

SpecFault == InitStrip /\ [][NextFault]_vars

-----------------------------------------------------------------------------
(* The lazy related-part accessors                                         *)

\* Part.part_related_by(reltype): the target of the relationship of that
\* type, NoPart where the code raises KeyError
part_related_by(R, reltype) ==
    LET matching == Filter(R[DOC], { r \in Range(R[DOC]) : r.reltype # reltype }, 1)
    IN  IF Len(matching) = 0 THEN NoPart ELSE matching[1].target

\* Relationships._next_rId: the first number of 1..len+1 not in use
next_rId(rs) ==
    CHOOSE n \in 1..(Len(rs) + 1) :
        /\ \A r \in Range(rs) : r.rId # n
        /\ \A m \in 1..(n - 1) : \E r \in Range(rs) : r.rId = m

\* Part.relate_to(target, reltype) on the document part
relate_to(R, target, reltype) ==
    IF \E r \in Range(R[DOC]) : r.reltype = reltype /\ r.target = target /\ ~r.is_external
    THEN R
    ELSE [R EXCEPT ![DOC] = Append(@, Rel(next_rId(@), reltype, target, FALSE))]

\* an accessor that never looks the relationship up
related_part_or_default_always_new(R, reltype, pn, oid) ==
    LET new_part == [pn |-> pn, oid |-> oid]
    IN  [ret |-> new_part, rels |-> relate_to(R, new_part, reltype), created |-> TRUE,
         raised |-> "none"]

\* an accessor that creates the default part and does not relate it
related_part_or_default_unrelated(R, reltype, pn, oid) ==
    LET found == part_related_by(R, reltype)
        new_part == [pn |-> pn, oid |-> oid]
    IN  IF found # NoPart
        THEN [ret |-> found, rels |-> R, created |-> FALSE, raised |-> "none"]
        ELSE [ret |-> new_part, rels |-> R, created |-> TRUE, raised |-> "none"]

\* the try/except of an accessor: the related part, or a new default part
\* of partname pn related to the document part
related_part_or_default(R, reltype, pn, oid) ==
    LET found == part_related_by(R, reltype)
        new_part == [pn |-> pn, oid |-> oid]
    IN  IF found # NoPart
        THEN [ret |-> found, rels |-> R, created |-> FALSE, raised |-> "none"]
        ELSE [ret |-> new_part, rels |-> relate_to(R, new_part, reltype), created |-> TRUE,
         raised |-> "none"]

\* what an accessor call does to the state, given the outcome of its body:
\* the part it returned, or the exception it raised
Accessor(name, outcome) ==
    /\ calls < MaxCalls
    /\ calls' = calls + 1
    /\ pre' = Snapshot
    /\ rels' = outcome.rels
    /\ next_oid' = IF outcome.created THEN next_oid + 1 ELSE next_oid
    /\ op' = [OpRecord(name, STREAM, "None", FALSE, FALSE, STREAM, outcome.ret)
                 EXCEPT !.raised = outcome.raised]
    /\ related_parts' = related_parts_after(related_parts, rels, rels')
    /\ UNCHANGED <<library, content_type, markup, saving>>

\* DocumentPart.numbering_part, a lazyproperty: the value the body returns is
\* cached.  When no numbering part is related the body calls
\* NumberingPart.new(): the part it returns is related to the document
\* part; its exception ends the call with nothing related and nothing cached.
numbering_part ==
    LET outcome ==
            IF numbering_cache # NoPart
            THEN [ret |-> numbering_cache, rels |-> rels, created |-> FALSE, raised |-> "none"]
            ELSE IF part_related_by(rels, RT_NUMBERING) = NoPart
                    /\ library.NumberingPart_new = "NotImplementedError"
            THEN [ret |-> NoPart, rels |-> rels, created |-> FALSE,
                  raised |-> "NotImplementedError"]
            ELSE related_part_or_default(rels, RT_NUMBERING, "/word/numbering.xml", next_oid)
    IN  /\ Accessor("numbering_part", outcome)
        /\ numbering_cache' = IF outcome.raised = "none" THEN outcome.ret ELSE numbering_cache

\* DocumentPart._comments_part
comments_part ==
    /\ Accessor("_comments_part",
                related_part_or_default(rels, RT_COMMENTS, "/word/comments.xml", next_oid))
    /\ UNCHANGED numbering_cache

\* DocumentPart._settings_part
settings_part ==
    /\ Accessor("_settings_part",
                related_part_or_default(rels, RT_SETTINGS, "/word/settings.xml", next_oid))
    /\ UNCHANGED numbering_cache

\* DocumentPart._styles_part
styles_part ==
    /\ Accessor("_styles_part",
                related_part_or_default(rels, RT_STYLES, "/word/styles.xml", next_oid))
    /\ UNCHANGED numbering_cache

-----------------------------------------------------------------------------
(* Header and footer parts                                                 *)

\* the rIds a caller asks for: those of a loaded document, and one more
RIdSpace == 1..(MaxRels + 1)

\* "/word/header%d.xml" % n and "/word/footer%d.xml" % n, for as many n as a run needs
HeaderNames == <<"/word/header1.xml", "/word/header2.xml", "/word/header3.xml", "/word/header4.xml">>
FooterNames == <<"/word/footer1.xml", "/word/footer2.xml", "/word/footer3.xml", "/word/footer4.xml">>

\* OpcPackage.next_partname(template): the first name of the template that
\* no part of the package has
next_partname(R, names) ==
    LET used == { q.pn : q \in PartSet(R) }
        n == CHOOSE i \in 1..Len(names) :
                 names[i] \notin used /\ \A j \in 1..(i - 1) : names[j] \in used
    IN  names[n]

\* the rId relate_to returns: that of the relationship to target
rId_of(R, target, reltype) ==
    (CHOOSE r \in Range(R[DOC]) : r.reltype = reltype /\ r.target = target /\ ~r.is_external).rId

\* the body with the rId counted from the number of relationships
add_part_counting_rId(name, reltype, names) ==
    LET new_part == [pn |-> next_partname(rels, names), oid |-> next_oid]
        after == [rels EXCEPT ![DOC] = Append(@, Rel(Len(@) + 1, reltype, new_part, FALSE))]
    IN  /\ calls < MaxCalls
        /\ calls' = calls + 1
        /\ pre' = Snapshot
        /\ rels' = after
        /\ next_oid' = next_oid + 1
        /\ op' = [OpRecord(name, STREAM, "None", FALSE, FALSE, STREAM, new_part)
                     EXCEPT !.rId = Len(rels[DOC]) + 1]
        /\ related_parts' = related_parts_after(related_parts, rels, rels')
        /\ UNCHANGED <<library, content_type, markup, numbering_cache, saving>>

\* the body shared by add_header_part and add_footer_part: a new part of
\* the next free partname, related to the document part
add_part(name, reltype, names) ==
    LET new_part == [pn |-> next_partname(rels, names), oid |-> next_oid]
        after == relate_to(rels, new_part, reltype)
    IN  /\ calls < MaxCalls
        /\ calls' = calls + 1
        /\ pre' = Snapshot
        /\ rels' = after
        /\ next_oid' = next_oid + 1
        /\ op' = [OpRecord(name, STREAM, "None", FALSE, FALSE, STREAM, new_part)
                     EXCEPT !.rId = rId_of(after, new_part, reltype)]
        /\ related_parts' = related_parts_after(related_parts, rels, rels')
        /\ UNCHANGED <<library, content_type, markup, numbering_cache, saving>>

\* DocumentPart.add_footer_part
add_footer_part == add_part("add_footer_part", RT_FOOTER, FooterNames)

\* DocumentPart.add_header_part
add_header_part == add_part("add_header_part", RT_HEADER, HeaderNames)

\* a lookup that answers an rId it does not hold with a part made up for it
related_part_or_new(tp, rId) ==
    IF \E e \in tp : e.rId = rId
    THEN (CHOOSE e \in tp : e.rId = rId).target
    ELSE [pn |-> "/word/header1.xml", oid |-> FirstNewOid]

\* self.related_parts[rId]: the part under rId, NoPart where the dict raises KeyError
related_part(tp, rId) ==
    IF \E e \in tp : e.rId = rId THEN (CHOOSE e \in tp : e.rId = rId).target ELSE NoPart

\* the body shared by header_part and footer_part
part_by_rId(name, rId) ==
    LET found == related_part(related_parts, rId)
    IN  /\ calls < MaxCalls
        /\ calls' = calls + 1
        /\ pre' = Snapshot
        /\ op' = [OpRecord(name, STREAM, "None", FALSE, FALSE, STREAM, found)
                     EXCEPT !.rId = rId,
                            !.raised = IF found = NoPart THEN "KeyError" ELSE "none"]
        /\ UNCHANGED <<related_parts, library, content_type, rels, markup, numbering_cache, next_oid, saving>>

\* Part._rel_ref_count(rId): the number of r:id attributes of the markup equal to rId
rel_ref_count(M, rId) == Cardinality({ i \in 1..Len(M) : M[i].rid = rId })

\* DocumentPart.drop_header_part(rId): self.drop_rel(rId) deletes the
\* relationship unless the markup refers to it twice or more; the deletion
\* of an rId that is no relationship raises KeyError
drop_header_part(rId) ==
    LET deletes == rel_ref_count(markup, rId) < 2
        missing == rId \notin { r.rId : r \in Range(rels[DOC]) }
    IN  /\ calls < MaxCalls
        /\ calls' = calls + 1
        /\ pre' = Snapshot
        /\ rels' = IF deletes THEN [rels EXCEPT ![DOC] = del_rel(rels[DOC], rId)] ELSE rels
        /\ op' = [OpRecord("drop_header_part", STREAM, "None", FALSE, FALSE, STREAM, NoPart)
                     EXCEPT !.rId = rId,
                            !.raised = IF deletes /\ missing THEN "KeyError" ELSE "none"]
        /\ related_parts' = related_parts_after(related_parts, rels, rels')
        /\ UNCHANGED <<library, content_type, markup, numbering_cache, next_oid, saving>>

\* DocumentPart.core_properties: package.core_properties returns the related
\* core-properties part, or relates a new default one to the package
core_properties ==
    LET matching == Filter(rels[PKG], { r \in Range(rels[PKG]) : r.reltype # RT_CORE_PROPERTIES }, 1)
        new_part == [pn |-> "/docProps/core.xml", oid |-> next_oid]
        created == Len(matching) = 0
    IN  /\ calls < MaxCalls
        /\ calls' = calls + 1
        /\ pre' = Snapshot
        /\ rels' = IF created
                   THEN [rels EXCEPT ![PKG] =
                            Append(@, Rel(next_rId(@), RT_CORE_PROPERTIES, new_part, FALSE))]
                   ELSE rels
        /\ next_oid' = IF created THEN next_oid + 1 ELSE next_oid
        /\ op' = OpRecord("core_properties", STREAM, "None", FALSE, FALSE, STREAM,
                          IF created THEN new_part ELSE matching[1].target)
        /\ related_parts' = related_parts_after(related_parts, rels, rels')
        /\ UNCHANGED <<library, content_type, markup, numbering_cache, saving>>

\* DocumentPart.footer_part(rId)
footer_part(rId) == part_by_rId("footer_part", rId)

\* DocumentPart.header_part(rId)
header_part(rId) == part_by_rId("header_part", rId)

-----------------------------------------------------------------------------
(* The document with its well-known parts                                  *)

PartNamed(pn) == CHOOSE p \in LoadedParts : p.pn = pn /\ p.oid # 3

\* what the document part of a loaded package may be related to
DocChoices ==
    { <<RT_NUMBERING, PartNamed("/word/numbering.xml")>>,
      <<RT_SETTINGS, PartNamed("/word/settings.xml")>>,
      <<RT_STYLES, PartNamed("/word/styles.xml")>>,
      <<RT_COMMENTS, PartNamed("/word/comments.xml")>>,
      <<RT_HEADER, PartNamed("/word/header1.xml")>>,
      <<"http://schemas.microsoft.com/office/2006/relationships/vbaProject",
        PartNamed("/word/vbaProject.bin")>>,
      <<"http://schemas.openxmlformats.org/officeDocument/2006/relationships/control",
        PartNamed("/word/activeX/activeX1.xml")>> }

RECURSIVE Documents(_)
\* the packages whose document part has at most n relationships, all different
Documents(n) ==
    IF n = 0 THEN {BaseRels}
    ELSE LET smaller == Documents(n - 1)
         IN  smaller \cup
             UNION { { AddRel(R, DOC, c[1], c[2]) :
                         c \in { d \in DocChoices : \A r \in Range(R[DOC]) : r.reltype # d[1] } }
                     : R \in smaller }

\* the markup of a loaded document with its well-known parts: no r:id
\* element, or a header relationship referred to once or twice (the
\* documents with other such markup are those of InitStrip)
HeaderRefs(R) ==
    LET refs == { [tag |-> "w:headerReference", rid |-> r.rId] :
                    r \in { x \in Range(R[DOC]) : x.reltype = RT_HEADER } }
    IN  {<<>>} \cup { <<e>> : e \in refs } \cup { <<e, e>> : e \in refs }

Init ==
    /\ content_type \in {CT_WML_DOCUMENT_MACRO_ENABLED_MAIN, CT_WML_DOCUMENT_MAIN}
    /\ rels \in Documents(MaxRels)
    /\ markup \in HeaderRefs(rels)
    /\ related_parts = loaded_related_parts(rels[DOC])
    /\ library \in Libraries
    /\ numbering_cache = NoPart
    /\ next_oid = FirstNewOid
    /\ saving = Idle
    /\ calls = 0
    /\ pre = Snapshot
    /\ op = NoOp

Next ==
    \/ \E f \in Flags : save(STREAM, f)
    \/ numbering_part
    \/ comments_part
    \/ settings_part
    \/ styles_part
    \/ add_header_part
    \/ add_footer_part
    \/ \E rId \in RIdSpace : header_part(rId)
    \/ \E rId \in RIdSpace : footer_part(rId)
    \/ \E rId \in RIdSpace : drop_header_part(rId)
    \/ core_properties

Spec == Init /\ [][Next]_vars

-----------------------------------------------------------------------------
(* Saving to every destination                                             *)

RECURSIVE Strings(_, _)
\* the strings of at most n characters over an alphabet
Strings(n, alphabet) ==
    IF n = 0 THEN {<<>>}
    ELSE LET shorter == Strings(n - 1, alphabet)
         IN  shorter \cup { Append(s, c) : s \in shorter, c \in alphabet }

Endings ==
    { <<>>,
      DOT_DOCM,
      <<46, 68, 79, 67, 77>>,              \* .DOCM
      <<46, 68, 111, 99, 77>>,             \* .DocM
      DOT_DOCX,
      <<46, 100, 111, 99>>,                \* .doc
      <<100, 111, 99, 109>>,               \* docm
      <<46, 100, 111, 99, 109, 120>>,      \* .docmx
      <<46, 100, 111, 99, 109, 46>>,       \* .docm.
      <<46, 100, 111, 99, 109, 47>>,       \* .docm/
      <<66, 46, 68, 79, 67, 77>>,          \* B.DOCM
      <<201, 46, 68, 79, 67, 77>>,         \* E acute, .DOCM
      <<46, 100, 214, 99, 109>>,           \* .d, O diaeresis, cm
      <<931, 46, 68, 79, 67, 77>>,         \* capital sigma, .DOCM
      <<46, 68, 79, 67, 924>>,             \* .DOC, Greek capital mu
      <<304, 46, 100, 111, 99, 109>>,      \* capital I with dot above, .docm
      <<913, 931>> }                       \* capital alpha, capital sigma

\* the destination paths: a stem over "a", "." and "/", then an ending
Paths == { Path(stem \o ending) : stem \in Strings(MaxStem, {97, 46, 47}), ending \in Endings }

InitPaths ==
    /\ content_type \in {CT_WML_DOCUMENT_MACRO_ENABLED_MAIN, CT_WML_DOCUMENT_MAIN}
    /\ rels \in Documents(0)
    /\ markup = <<>>
    /\ related_parts = loaded_related_parts(rels[DOC])
    /\ library \in SaveLibraries
    /\ numbering_cache = NoPart
    /\ next_oid = FirstNewOid
    /\ saving = Idle
    /\ calls = 0
    /\ pre = Snapshot
    /\ op = NoOp

\* one save() of each package: the package a save() leaves is one of InitPaths
NextPaths == \E d \in {STREAM} \cup Paths, f \in Flags : calls = 0 /\ save(d, f)

SpecPaths == InitPaths /\ [][NextPaths]_vars

-----------------------------------------------------------------------------
(* Properties                                                              *)

\* the last character of the file name of p is at Len(p); its first follows the last "/"
FileName(p) ==
    LET seps == { i \in 1..Len(p) : p[i] = 47 }
        start == IF seps = {} THEN 1 ELSE (CHOOSE i \in seps : \A j \in seps : j <= i) + 1
    IN  SubSeq(p, start, Len(p))

\* s ends with ".docm" in any mix of upper and lower case
EndsDotDocm(s) ==
    LET n == Len(s) IN
    /\ n >= 5
    /\ s[n - 4] = 46
    /\ s[n - 3] \in {100, 68}
    /\ s[n - 2] \in {111, 79}
    /\ s[n - 1] \in {99, 67}
    /\ s[n] \in {109, 77}

\* the file extension of p is ".docm" in any case: the file name ends with it
\* and has a character that is not a dot before it
HasDocmExtension(p) ==
    LET f == FileName(p) IN
    /\ EndsDotDocm(f)
    /\ \E j \in 1..(Len(f) - 5) : f[j] # 46

\* the preserve decision as the decide step states it
ResolvedPreserve(dest, flag) ==
    CASE flag = "True" -> TRUE
      [] flag = "False" -> FALSE
      [] OTHER -> dest.kind = "str" /\ HasDocmExtension(dest.s)

\* the last operation was a save() that had to strip
StrippingSave ==
    /\ op.name = "save"
    /\ pre.content_type = CT_WML_DOCUMENT_MACRO_ENABLED_MAIN
    /\ ~ResolvedPreserve(op.dest, op.flag)

\* a part is macro-classified: by its content type or by its partname
MacroClassified(ct, p) ==
    \/ part_content_type(ct, p) \in
         { "application/vnd.ms-word.vbaProject", "application/vnd.ms-word.vbaData+xml",
           "application/vnd.ms-office.activeX", "application/vnd.ms-office.activeX+xml" }
    \/ p.pn \in { "/word/vbaProject.bin", "/word/vbaData.xml" }

MacroTyped(r) ==
    r.reltype \in
        { "http://schemas.microsoft.com/office/2006/relationships/vbaProject",
          "http://schemas.microsoft.com/office/2006/relationships/wordVbaData",
          "http://schemas.openxmlformats.org/officeDocument/2006/relationships/control" }

RIds(rs) == { r.rId : r \in Range(rs) }

C2_NoMacroPartRemains ==
    StrippingSave => \A p \in PartSet(rels) : ~MacroClassified(content_type, p)

\* a stripping save() of a package whose macro part was reached from the
\* package-level relationships only
C2_Witness ==
    /\ StrippingSave
    /\ \E p \in PartSet(pre.rels) :
         /\ MacroClassified(pre.content_type, p)
         /\ \A src \in PartSet(pre.rels) : \A r \in Range(pre.rels[src]) : r.target # p

\* C3: after save() of a macro-enabled document with preserve resolved to
\* false the document part has the macro-free content type and none of its
\* relationships is of type vbaProject, wordVbaData or control: every such
\* rId present before is absent after.
C3_TypeFlippedAndMacroRelsGone ==
    StrippingSave =>
        /\ content_type = CT_WML_DOCUMENT_MAIN
        /\ \A r \in Range(rels[DOC]) : ~MacroTyped(r)
        /\ \A r \in Range(pre.rels[DOC]) : MacroTyped(r) => r.rId \notin RIds(rels[DOC])

\* a stripping save() of a document that had a control relationship, with
\* another relationship left
C3_Witness ==
    /\ StrippingSave
    /\ \E r \in Range(pre.rels[DOC]) :
         r.reltype = "http://schemas.openxmlformats.org/officeDocument/2006/relationships/control"
    /\ rels[DOC] # <<>>

\* C4: if every markup element referenced a relationship of the document
\* part before a stripping save(), every markup element does so after it.
C4_InlineRefsNeverOutlive ==
    (StrippingSave /\ \A i \in 1..Len(pre.markup) : pre.markup[i].rid \in RIds(pre.rels[DOC]))
        => \A i \in 1..Len(markup) : markup[i].rid \in RIds(rels[DOC])

\* C5: save() strips exactly when the document is macro-enabled and preserve
\* resolves to false; in every other case the content type, every
\* relationship set and the markup are as before the call.
C5_NoOpGuard ==
    op.name = "save" =>
        /\ op.stripped = StrippingSave
        /\ StrippingSave => content_type = CT_WML_DOCUMENT_MAIN
        /\ ~StrippingSave => Snapshot = pre

\* save() with the explicit flag true on a macro-enabled document that has a
\* macro relationship and a macro part
C5_Witness ==
    /\ op.name = "save"
    /\ op.flag = "True"
    /\ content_type = CT_WML_DOCUMENT_MACRO_ENABLED_MAIN
    /\ \E r \in Range(rels[DOC]) : MacroTyped(r) /\ MacroClassified(content_type, r.target)
    /\ markup # <<>>

\* no macro-classified part is in the package and the document part has no
\* macro-typed relationship
CleanDocument ==
    /\ \A p \in PartSet(rels) : ~MacroClassified(content_type, p)
    /\ \A r \in Range(rels[DOC]) : ~MacroTyped(r)

\* no macro-classified part is in the package and no source of the package
\* has a macro-typed relationship
CleanPackage ==
    /\ \A p \in PartSet(rels) : ~MacroClassified(content_type, p)
    /\ \A src \in {PKG} \cup PartSet(rels) : \A r \in Range(rels[src]) : ~MacroTyped(r)

\* a save() with preserve false that follows a stripping save() changes nothing
SecondRunIsNoOp ==
    (StrippingSave /\ op'.name = "save" /\ ~ResolvedPreserve(op'.dest, op'.flag))
        => UNCHANGED <<content_type, rels, markup>>

\* C6 as stated: after the first stripping run no macro-classified part and
\* no macro-typed relationship remains in the package, and a second run
\* changes nothing.
C6_Original == [][(StrippingSave' => CleanPackage') /\ SecondRunIsNoOp]_vars

\* C6: after the first stripping run no macro-classified part remains in the
\* package and no macro-typed relationship remains on the document part, and
\* a second run with preserve false changes nothing: twice is the same as once.
C6_Idempotent == [][(StrippingSave' => CleanDocument') /\ SecondRunIsNoOp]_vars

\* a second save() with preserve false after a save() that stripped: a
\* relationship of the document part was deleted, its rId is free
C6_Witness ==
    /\ calls = 2
    /\ op.name = "save"
    /\ ~ResolvedPreserve(op.dest, op.flag)
    /\ pre.content_type = CT_WML_DOCUMENT_MAIN
    /\ Snapshot = pre
    /\ \E r \in Range(rels[DOC]) : r.rId > Len(rels[DOC])

\* C7: the preserve decision of save() is the explicit flag when given,
\* false for a stream, and for a path true exactly when its file extension
\* is ".docm" in any case; it does not depend on the package.
C7_DecideIsPure ==
    op.name = "save" => op.preserve = ResolvedPreserve(op.dest, op.flag)

\* a save() without a flag to the path of a capital sigma and ".DOCM", the
\* extension in upper case: preserved
C7_Witness ==
    /\ op.name = "save"
    /\ op.flag = "None"
    /\ op.dest = Path(<<931, 46, 68, 79, 67, 77>>)
    /\ op.preserve

\* C8: the serializer receives the caller's destination, except after a
\* stripping save() to a path whose file extension is ".docm" in any case,
\* when it receives the path with that extension replaced by ".docx".
C8_PathCorrection ==
    op.name = "save" =>
        IF StrippingSave /\ op.dest.kind = "str" /\ HasDocmExtension(op.dest.s)
        THEN /\ op.saved.kind = "str"
             /\ Len(op.saved.s) = Len(op.dest.s)
             /\ SubSeq(op.saved.s, 1, Len(op.dest.s) - 5) = SubSeq(op.dest.s, 1, Len(op.dest.s) - 5)
             /\ SubSeq(op.saved.s, Len(op.dest.s) - 4, Len(op.dest.s)) = DOT_DOCX
        ELSE op.saved = op.dest

Accessors == {"numbering_part", "_settings_part", "_styles_part", "_comments_part"}

\* the relationship type an accessor looks up
TypeOf(name) ==
    CASE name = "numbering_part" -> RT_NUMBERING
      [] name = "_settings_part" -> RT_SETTINGS
      [] name = "_styles_part" -> RT_STYLES
      [] name = "_comments_part" -> RT_COMMENTS

\* the accessor has what it needs of the library to make its default part:
\* for numbering_part, a NumberingPart.new() that builds the part
BuildsDefault(name) == name = "numbering_part" => library.NumberingPart_new = "part"

\* C9: two successive calls of one lazy accessor (numbering_part,
\* _settings_part, _styles_part, _comments_part) return the identical part
\* object, whether the relationship existed or the first call created the
\* part (with a NumberingPart.new() that builds the part).
C9_SingletonCaching ==
    [][(op.name \in Accessors /\ op'.name = op.name /\ BuildsDefault(op.name))
          => (op'.ret = op.ret /\ op'.ret # NoPart)]_vars

\* the second of two _settings_part calls returns the part the first created
C9_Witness ==
    /\ calls = 2
    /\ op.name = "numbering_part"
    /\ library.NumberingPart_new = "part"
    /\ op.ret.oid >= FirstNewOid
    /\ pre.rels = rels

OfType(rs, reltype) == { r \in Range(rs) : r.reltype = reltype }

\* what the last accessor call did: the document part has exactly one
\* relationship of the accessor's type, internal and targeting the returned
\* part; if it had none before, that one is new, under an rId not in use,
\* and its target is the one part the package gained; if it had one, the
\* relationships and the parts are as before
CreateOnce ==
    LET T == TypeOf(op.name)
        was == OfType(pre.rels[DOC], T)
        now == OfType(rels[DOC], T)
    IN  /\ Cardinality(now) = 1
        /\ \A r \in now : ~r.is_external /\ r.target = op.ret
        /\ IF was = {}
           THEN /\ \A r \in now : r.rId \notin RIds(pre.rels[DOC])
                /\ Range(rels[DOC]) = Range(pre.rels[DOC]) \cup now
                /\ \A src \in DOMAIN rels \ {DOC} : rels[src] = pre.rels[src]
                /\ op.ret \notin PartSet(pre.rels)
                /\ PartSet(rels) = PartSet(pre.rels) \cup {op.ret}
           ELSE /\ rels = pre.rels
                /\ PartSet(rels) = PartSet(pre.rels)

\* the numbering part that numbering_part has cached, if any, is the target
\* of a numbering relationship: no call has deleted the relationship since
CacheRelated ==
    numbering_cache # NoPart =>
        \E r \in OfType(rels[DOC], RT_NUMBERING) : r.target = numbering_cache

C11_LookupMiss ==
    (/\ op.name \in {"header_part", "footer_part"}
     /\ op.rId \notin RIds(pre.rels[DOC])
     /\ library.related_parts = "current")
        => /\ op.raised = "KeyError"
           /\ op.ret = NoPart
           /\ rels = pre.rels
           /\ PartSet(rels) = PartSet(pre.rels)

\* header_part of an rId that a relationship had until the call before
\* deleted it: a later relationship of the document part is still there
C11_Witness ==
    /\ calls = 2
    /\ op.name = "header_part"
    /\ op.raised = "KeyError"
    /\ library.related_parts = "current"
    /\ op.rId \notin RIds(rels[DOC])
    /\ \E r \in Range(rels[DOC]) : r.rId > op.rId

\* C12: when the serializer fails during a stripping save(), the call ends
\* with the serializer's I/O fault after one invocation of the serializer,
\* and the package stays converted: the content type is the macro-free one,
\* the document part has no macro-typed relationship and the package has no
\* macro-classified part.
C12_FailedSaveStaysConverted ==
    (StrippingSave /\ op.raised # "none") =>
        /\ op.raised = "IOError"
        /\ op.writes = 1
        /\ content_type = CT_WML_DOCUMENT_MAIN
        /\ \A r \in Range(rels[DOC]) : ~MacroTyped(r)
        /\ \A p \in PartSet(rels) : ~MacroClassified(content_type, p)

\* a stripping save() whose serializer failed, of a document that had a
\* macro-typed relationship to a macro-classified part
C12_Witness ==
    /\ StrippingSave
    /\ op.raised = "IOError"
    /\ \E r \in Range(pre.rels[DOC]) : MacroTyped(r) /\ MacroClassified(pre.content_type, r.target)
    /\ rels # pre.rels

\* a stripping save() is under way, or was ended by an exception
Interrupted == saving.pc = "idle" /\ op.name = "save" /\ op.raised = "Exception"

\* C13: within a stripping save() the content type is rewritten before
\* anything is pruned: in every intermediate state in which a relationship
\* or a markup element is gone, and in the state an exception during the
\* pruning leaves, the content type is the macro-free one.
C13_RewriteBeforePruning ==
    ((saving.pc = "run" \/ Interrupted) /\ (rels # pre.rels \/ markup # pre.markup))
        => content_type = CT_WML_DOCUMENT_MAIN

\* an exception ended the save() after the cascade deleted one of two
\* macro-typed relationships of the document part
C13_Witness ==
    /\ Interrupted
    /\ rels # pre.rels
    /\ \E r \in Range(rels[DOC]) : MacroTyped(r)
    /\ content_type = CT_WML_DOCUMENT_MAIN

\* the pruning with the sweep of _remove_vba_parts run before the cascade
\* of _remove_macro_relationships
sweep_then_cascade(R, M) ==
    remove_macro_relationships(remove_vba_parts(R, CT_WML_DOCUMENT_MAIN), M)

\* C14: the cascade and the sweep are order-insensitive: a stripping save()
\* leaves the markup, the part set and the relationships of the package
\* root and of every part of the package as the sweep followed by the
\* cascade would leave them.
C14_OrderInsensitive ==
    StrippingSave =>
        LET other == sweep_then_cascade(pre.rels, pre.markup)
        IN  /\ markup = other.markup
            /\ PartSet(rels) = PartSet(other.rels)
            /\ \A src \in {PKG} \cup PartSet(rels) : rels[src] = other.rels[src]

\* C15: add_header_part() and add_footer_part() create one new part and
\* append one relationship to it under an rId that was not in use, leaving
\* the relationships there were as they were; header_part / footer_part of
\* the returned rId gives the returned part.  Whatever was called, the rIds
\* of the document part's relationships are all different.
C15_AddPartFreshRId ==
    /\ \A i, j \in 1..Len(rels[DOC]) : rels[DOC][i].rId = rels[DOC][j].rId => i = j
    /\ op.name \in {"add_header_part", "add_footer_part"} =>
          /\ op.ret \notin PartSet(pre.rels)
          /\ PartSet(rels) = PartSet(pre.rels) \cup {op.ret}
          /\ op.rId \notin RIds(pre.rels[DOC])
          /\ rels[DOC] = Append(pre.rels[DOC],
                                Rel(op.rId,
                                    IF op.name = "add_header_part" THEN RT_HEADER ELSE RT_FOOTER,
                                    op.ret, FALSE))
          /\ \A src \in DOMAIN rels \ {DOC} : rels[src] = pre.rels[src]
          /\ related_part(related_parts, op.rId) = op.ret

\* add_header_part() after a save() that stripped the first of two
\* relationships: the new relationship takes the rId the strip freed
C15_Witness ==
    /\ calls = 2
    /\ op.name = "add_header_part"
    /\ \E r \in Range(rels[DOC]) : r.rId > op.rId
    /\ op.ret.pn = "/word/header1.xml"

\* C17: for a string destination the path correction tests the path as
\* ".docm" exactly when the decide step infers the macro-enabled extension
\* from it; so a save() without a preserve flag hands the serializer the
\* destination it was given.
C17_StepsAgree ==
    op.name = "save" =>
        /\ op.dest.kind = "str" =>
              (should_preserve_macros(op.dest, "None") = (corrected_path(op.dest) # op.dest))
        /\ op.flag = "None" => op.saved = op.dest

\* a relationship of src the conversion is meant to remove: a macro-typed
\* one of the document part, or an internal one to a macro-classified part
MacroEdge(ct, src, r) ==
    \/ src = DOC /\ MacroTyped(r)
    \/ ~r.is_external /\ MacroClassified(ct, r.target)

\* R without the relationships of the macro-classified parts and without
\* the macro edges of the other sources
WithoutMacroEdges(R, ct) ==
    [src \in DOMAIN R |->
        IF MacroClassified(ct, src) THEN <<>>
        ELSE Filter(R[src], { r \in Range(R[src]) : MacroEdge(ct, src, r) }, 1)]

\* C18 as stated: every part of the package before a stripping save() that
\* is not macro-classified is a part of the package after it.
C18_Original ==
    StrippingSave =>
        \A p \in PartSet(pre.rels) : ~MacroClassified(pre.content_type, p) => p \in PartSet(rels)

\* C18: every part that before a stripping save() is not macro-classified
\* and is reached from the package root without passing a macro-classified
\* part or a macro-typed relationship of the document part is a part of the
\* package after it.
C18_ReferencedPartsStay ==
    StrippingSave =>
        \A p \in PartSet(WithoutMacroEdges(pre.rels, pre.content_type)) : p \in PartSet(rels)

\* a stripping save() that removed a macro part and kept the header part
\* the document part refers to
C18_Witness ==
    /\ StrippingSave
    /\ \E r \in Range(rels[DOC]) : r.reltype = RT_HEADER /\ r.target.pn = "/word/header1.xml"
    /\ \E v \in PartSet(pre.rels) : MacroClassified(pre.content_type, v)

\* C19: a stripping save() leaves every relationship, of the package root
\* and of every part, that is neither a macro-typed relationship of the
\* document part nor an internal relationship to a macro-classified part:
\* it is still there with its rId, reltype and target, and none is added.
C19_OtherRelationshipsKept ==
    StrippingSave =>
        \A src \in DOMAIN pre.rels :
            /\ \A r \in Range(pre.rels[src]) :
                  ~MacroEdge(pre.content_type, src, r) => r \in Range(rels[src])
            /\ \A r \in Range(rels[src]) : r \in Range(pre.rels[src])

\* a stripping save() that deleted rId1 of the document part and kept its
\* external header relationship rId2
C19_Witness ==
    /\ StrippingSave
    /\ 1 \notin RIds(rels[DOC])
    /\ \E r \in Range(rels[DOC]) : r.rId = 2 /\ r.is_external /\ r.reltype = RT_HEADER

\* a save() with preserve false returns without fault; the call before it
\* was ended by an exception after it had rewritten the content type
RetryReturns ==
    /\ op.name = "save"
    /\ op.raised = "Exception"
    /\ op'.name = "save"
    /\ op'.raised = "none"
    /\ ~ResolvedPreserve(op'.dest, op'.flag)
    /\ pre'.content_type = CT_WML_DOCUMENT_MAIN

\* C20 as stated: when a stripping save() was interrupted after the
\* content-type rewrite and a later save() with preserve false returns
\* without fault, the document part has no macro-typed relationship and
\* the package has no macro-classified part.
C20_Original == [][RetryReturns => CleanDocument']_vars

\* C20: when a stripping save() was interrupted after the content-type
\* rewrite, a later save() with preserve false that returns without fault
\* does not strip: it leaves the content type, the relationships and the
\* markup as the interrupted call left them.
C20_RetryPrunesNothing ==
    [][RetryReturns => (~op'.stripped /\ Snapshot' = pre')]_vars

\* the retry returned; the interrupted call had deleted rId1 of the document
\* part, and the macro-typed relationship it had not reached is still there
C20_Witness ==
    /\ calls = 2
    /\ saving.pc = "idle"
    /\ op.name = "save"
    /\ op.raised = "none"
    /\ ~ResolvedPreserve(op.dest, op.flag)
    /\ pre.content_type = CT_WML_DOCUMENT_MAIN
    /\ 1 \notin RIds(rels[DOC])
    /\ \E r \in Range(rels[DOC]) : MacroTyped(r)

====
